---- MODULE Spec2Model ----
(***************************************************************************)
(* A model of the log parsing pipeline of Local-Log-Analyzer               *)
(* (backend/app/services/file_processor.py and its caller in               *)
(* log_analyzer.py).                                                       *)
(*                                                                         *)
(* Text is modelled as a sequence of atoms: an atom is either a maximal    *)
(* run of word characters (a "word", \w+ in the regular expressions of the *)
(* source) or a single punctuation character.  No two word atoms are       *)
(* adjacent, so a word boundary \b lies exactly between atoms.             *)
(***************************************************************************)
EXTENDS Integers, Sequences, FiniteSets, TLC

VARIABLES
    pc,             \* "ready" before the call, the name of the operation after it
    text,           \* argument of _extract_log_level
    level,          \* its result
    service_input,  \* argument of _extract_service
    service,        \* its result
    timestamp_str,  \* argument of _extract_timestamp
    timestamp,      \* its result
    content,        \* the text handed to the parser, as its lines between '\n'
    filename,       \* the file name hint, as its extension
    file_format,    \* detected LogFormat
    confidence,     \* detection confidence, a fraction
    entries,        \* the LogEntry list returned
    error,          \* the exception that left the call, None when it returned
    analysis,       \* the LogAnalysis returned by analyze_file
    groups,         \* match.groupdict() in _create_log_entry_from_syslog_match
    log_entry,      \* the LogEntry it returns
    message_atoms,  \* the message given to a normalizer, as its atoms
    normalized_atoms, \* what the normalizer makes of it, as its atoms
    request,        \* the arguments of a call on the analyzer or the pattern detector
    response,       \* what the call returns
    chat_histories, \* self.chat_histories of each ChatService instance
    file_contexts,  \* self.file_contexts of each ChatService instance
    connection_healthy, \* self.connection_healthy of each instance
    last_health_check,  \* self.last_health_check of each instance
    session_files,  \* the files <session_id>.pkl of UPLOAD_DIR/sessions
    uploads,        \* the files <file_id>_<name> of UPLOAD_DIR, as their entry counts
    issued,         \* the identifiers uuid4() has handed out
    conversation,   \* every message appended to a session's history, in order
    reply           \* what the last endpoint or service call answered

leaf_vars == <<text, level, service_input, service, timestamp_str, timestamp>>

file_vars == <<content, filename, file_format, confidence, entries, error, analysis>>

call_vars == <<groups, log_entry, message_atoms, normalized_atoms, request, response>>

session_vars == <<chat_histories, file_contexts, connection_healthy, last_health_check,
                  session_files, uploads, issued, conversation, reply>>

vars == <<pc, leaf_vars, file_vars, call_vars, session_vars>>

\* Python's None for an Optional[LogLevel] / Optional[str] result.
None == "None"

Min(S) == CHOOSE m \in S : \A n \in S : m <= n

Punct == {"[", "]", ":", "-", " ", ".", "{", "}", "\"", ",", "=", "<", ">", "/", "'"}

IsWord(a) == a \notin Punct

\* A sequence of atoms is a tokenisation of a string: no two words touch.
WellFormed(t) == \A i \in 1..(Len(t) - 1) : ~(IsWord(t[i]) /\ IsWord(t[i + 1]))

AtomSeqs(A, n) == UNION {[1..k -> A] : k \in 0..n}

(***************************************************************************)
(* Level Classifier: FileProcessor._extract_log_level                      *)
(***************************************************************************)

\* Longest text, in atoms, given to the level classifier.
MaxTextLen == 3

\* The words the classifier is run on, in the spelling they have in a log.
LevelWords ==
    {"fatal", "Critical", "ERROR", "failed", "warning", "ALERT", "info",
     "Notice", "debug", "trace", "crit", "erro", "dbg", "trc", "errors", "ok"}

\* str.upper() on one atom.
upper(a) ==
    CASE a = "fatal" -> "FATAL"
      [] a = "Critical" -> "CRITICAL"
      [] a = "failed" -> "FAILED"
      [] a = "warning" -> "WARNING"
      [] a = "info" -> "INFO"
      [] a = "Notice" -> "NOTICE"
      [] a = "debug" -> "DEBUG"
      [] a = "trace" -> "TRACE"
      [] a = "crit" -> "CRIT"
      [] a = "erro" -> "ERRO"
      [] a = "dbg" -> "DBG"
      [] a = "trc" -> "TRC"
      [] a = "errors" -> "ERRORS"
      [] a = "ok" -> "OK"
      [] OTHER -> a

\* A pattern \b(?:A|B)\b of the source.
Word(alts) == [shape |-> "word", alts |-> alts]

\* A pattern \[(?:A|B)\] of the source.
Bracket(alts) == [shape |-> "bracket", alts |-> alts]

\* re.search(pattern, t) for the two pattern shapes of the level tables.
re_search_level(p, t) ==
    IF p.shape = "word"
    THEN \E i \in 1..Len(t) : t[i] \in p.alts
    ELSE \E i \in 1..(Len(t) - 2) :
            t[i] = "[" /\ t[i + 1] \in p.alts /\ t[i + 2] = "]"

\* self.log_level_patterns, in the insertion order of the dict.
log_level_patterns ==
    << [level |-> "ERROR",
        patterns |-> << Word({"ERROR", "ERR", "ERRO"}), Word({"error", "err", "erro"}),
                        Word({"Error", "Err", "Erro"}), Bracket({"ERROR", "ERR", "ERRO"}),
                        Bracket({"error", "err", "erro"}) >>],
       [level |-> "WARN",
        patterns |-> << Word({"WARN", "WARNING"}), Word({"warn", "warning"}),
                        Word({"Warn", "Warning"}), Bracket({"WARN", "WARNING"}),
                        Bracket({"warn", "warning"}) >>],
       [level |-> "INFO",
        patterns |-> << Word({"INFO", "INFORMATION"}), Word({"info", "information"}),
                        Word({"Info", "Information"}), Bracket({"INFO", "INFORMATION"}),
                        Bracket({"info", "information"}) >>],
       [level |-> "DEBUG",
        patterns |-> << Word({"DEBUG", "DBG"}), Word({"debug", "dbg"}),
                        Word({"Debug", "Dbg"}), Bracket({"DEBUG", "DBG"}),
                        Bracket({"debug", "dbg"}) >>],
       [level |-> "TRACE",
        patterns |-> << Word({"TRACE", "TRC"}), Word({"trace", "trc"}),
                        Word({"Trace", "Trc"}), Bracket({"TRACE", "TRC"}),
                        Bracket({"trace", "trc"}) >>],
       [level |-> "FATAL",
        patterns |-> << Word({"FATAL", "CRIT", "CRITICAL"}), Word({"fatal", "crit", "critical"}),
                        Word({"Fatal", "Crit", "Critical"}), Bracket({"FATAL", "CRIT", "CRITICAL"}),
                        Bracket({"fatal", "crit", "critical"}) >>] >>

\* The table with the members of the enum that name a family's keyword:
\* CRITICAL for the family of FATAL, WARNING for the family of WARN.
enhanced_patterns_enum_names ==
    << [level |-> "CRITICAL",
        patterns |-> << Word({"FATAL"}), Word({"CRITICAL"}), Word({"EMERGENCY"}) >>],
       [level |-> "ERROR",
        patterns |-> << Word({"ERROR"}), Word({"ERR"}), Word({"FAILED"}), Word({"FAILURE"}) >>],
       [level |-> "WARNING",
        patterns |-> << Word({"WARN"}), Word({"WARNING"}), Word({"ALERT"}) >>],
       [level |-> "INFO",
        patterns |-> << Word({"INFO"}), Word({"INFORMATION"}), Word({"NOTICE"}) >>],
       [level |-> "DEBUG",
        patterns |-> << Word({"DEBUG"}), Word({"TRACE"}), Word({"VERBOSE"}) >>] >>

\* enhanced_patterns, the local table of _extract_log_level, in dict order.
enhanced_patterns ==
    << [level |-> "FATAL",
        patterns |-> << Word({"FATAL"}), Word({"CRITICAL"}), Word({"EMERGENCY"}) >>],
       [level |-> "ERROR",
        patterns |-> << Word({"ERROR"}), Word({"ERR"}), Word({"FAILED"}), Word({"FAILURE"}) >>],
       [level |-> "WARN",
        patterns |-> << Word({"WARN"}), Word({"WARNING"}), Word({"ALERT"}) >>],
       [level |-> "INFO",
        patterns |-> << Word({"INFO"}), Word({"INFORMATION"}), Word({"NOTICE"}) >>],
       [level |-> "DEBUG",
        patterns |-> << Word({"DEBUG"}), Word({"TRACE"}), Word({"VERBOSE"}) >>] >>

\* The two nested for loops over one table: the level of the first entry one
\* of whose patterns is found in t, None when the loops run to their end.
first_level(table, t) ==
    LET hits == {i \in 1..Len(table) :
                    \E j \in 1..Len(table[i].patterns) :
                        re_search_level(table[i].patterns[j], t)}
    IN IF hits = {} THEN None ELSE table[Min(hits)].level

\* The same loops with the tables consulted in the opposite order.
first_level_legacy_first(t) ==
    LET text_upper == [i \in 1..Len(t) |-> upper(t[i])]
        legacy == first_level(log_level_patterns, text_upper)
    IN IF Len(t) = 0 THEN None
       ELSE IF legacy # None THEN legacy
       ELSE first_level(enhanced_patterns, text_upper)

_extract_log_level(t) ==
    LET text_upper == [i \in 1..Len(t) |-> upper(t[i])]
        enhanced == first_level(enhanced_patterns, text_upper)
    IN IF Len(t) = 0 THEN None
       ELSE IF enhanced # None THEN enhanced
       ELSE first_level(log_level_patterns, text_upper)

(***************************************************************************)
(* Service Extractor: FileProcessor._extract_service                       *)
(***************************************************************************)

\* Longest input, in atoms, given to the service extractor.
MaxServiceLen == 4

ServiceWords == {"ERROR", "main", "db", "12"}

ServiceAtoms == ServiceWords \cup {"[", "]", ":", "-", " ", "."}

\* \d+ on a word atom.
IsDigits(a) ==
    a \in {"12", "34", "11", "22", "14", "15", "00", "1", "2", "01", "10", "2024",
           "123456", "654321"}

\* str.lower() on one atom.
lower(a) ==
    CASE a = "ERROR" -> "error"
      [] OTHER -> a

\* The string a sequence of atoms stands for.
RECURSIVE Join(_)
Join(t) == IF t = <<>> THEN "" ELSE t[1] \o Join(Tail(t))

\* str.strip(): leading and trailing whitespace removed.
strip(t) ==
    LET ink == {i \in 1..Len(t) : t[i] # " "}
    IN IF ink = {} THEN <<>> ELSE SubSeq(t, Min(ink), -Min({-i : i \in ink}))

_get_excluded_service_names ==
    {"info", "error", "warn", "warning", "debug", "trace", "fatal", "critical",
     "log", "logs", "message", "msg", "text", "data", "main", "root", "system"}

\* tok.lower() in self._get_excluded_service_names(), for a token given as
\* atoms.  No string of two or more atoms of ServiceAtoms spells a stoplisted
\* word, so only a single word can be one.
is_excluded(tok) == Len(tok) = 1 /\ lower(tok[1]) \in _get_excluded_service_names

\* Position where pattern n of the list in _extract_service matches at i.
pattern_at(n, s, i) ==
    LET at(k) == IF k \in 1..Len(s) THEN s[k] ELSE "<end>"
    IN CASE n = 1 -> /\ IsWord(at(i)) /\ at(i + 1) = "[" /\ IsDigits(at(i + 2))
                     /\ at(i + 3) = "]" /\ at(i + 4) = ":" /\ at(i + 5) = " "
         [] n = 2 -> /\ at(i) = "["
                     /\ \E j \in (i + 2)..Len(s) :
                           s[j] = "]" /\ \A k \in (i + 1)..(j - 1) : s[k] # "]"
         [] n = 3 -> IsWord(at(i)) /\ at(i + 1) = ":" /\ at(i + 2) = " "
         [] n = 4 -> /\ IsWord(at(i))
                     /\ \E m \in (i + 1)..Len(s) :
                           /\ \A k \in (i + 1)..(m - 1) : s[k] = " "
                           /\ s[m] = "-" /\ at(m + 1) = " "
         [] n = 5 -> IsWord(at(i)) /\ at(i + 1) = "." /\ at(i + 2) \notin Punct \cup {"<end>"}
         [] n = 6 -> IsWord(at(i)) /\ at(i + 1) = ":" /\ i + 1 = Len(s)
         [] n = 7 -> i = 1 /\ IsWord(at(1)) /\ at(2) = " "

\* Number of patterns in the list.
NumServicePatterns == 7

\* re.search(patterns[n], s): whether the pattern is found anywhere in s.
pattern_matches(n, s) == \E i \in 1..Len(s) : pattern_at(n, s, i)

\* match.group(1) of the leftmost match of pattern n in s.
pattern_group(n, s) ==
    LET i == Min({k \in 1..Len(s) : pattern_at(n, s, k)})
    IN IF n = 2
       THEN SubSeq(s, i + 1, Min({j \in (i + 2)..Len(s) : s[j] = "]"}) - 1)
       ELSE <<s[i]>>

\* re.sub(r'[^\w.-]', '', s).
SelectCleaned(s) == SelectSeq(s, LAMBDA a : IsWord(a) \/ a \in {".", "-"})

_extract_service(x) ==
    LET s == strip(x)
        \* the patterns whose match passes the stoplist test: the loop returns at
        \* the first of them and goes on to the next pattern at every other one
        returning == {n \in 1..NumServicePatterns :
                         pattern_matches(n, s) /\ ~is_excluded(pattern_group(n, s))}
        cleaned == SelectCleaned(s)
    IN IF x = <<>> THEN None
       ELSE IF ~\E i \in 1..Len(s) : s[i] \in {"[", "]", ":", "-", " "}
       THEN (IF is_excluded(s) THEN None ELSE Join(s))
       ELSE IF returning # {} THEN Join(pattern_group(Min(returning), s))
       ELSE IF cleaned # <<>> /\ ~is_excluded(cleaned) THEN Join(cleaned) ELSE None

\* "[ERROR] something failed", the example of the specification, with its two
\* words shortened to words of ServiceWords, and a name[pid]: line.
ServiceExamples ==
    { <<"[", "ERROR", "]", " ", "db", " ", "12">>,
      <<"db", "[", "12", "]", ":", " ", "main">>,
      <<"main", "[", "12", "]", ":", " ", "db">> }

ServiceInputs ==
    {t \in AtomSeqs(ServiceAtoms, MaxServiceLen) : WellFormed(t)} \cup ServiceExamples

(***************************************************************************)
(* Timestamp Extractor: FileProcessor._extract_timestamp                   *)
(*                                                                         *)
(* A digit string is modelled by its integer value n = hi * 10^9 + lo,     *)
(* kept as the pair (hi, lo) because epochs in milli- and microseconds do  *)
(* not fit a 32-bit integer.  An instant is "n units after the epoch".     *)
(***************************************************************************)

\* 10^9, the base of the pairs.
Base == 1000000000

Num(hi, lo) == [hi |-> hi, lo |-> lo]

Leq(a, b) == a.hi < b.hi \/ (a.hi = b.hi /\ a.lo <= b.lo)

Less(a, b) == ~Leq(b, a)

\* floor(a / d) for a divisor d of Base.
DivNum(a, d) == Num(a.hi \div d, (a.hi % d) * (Base \div d) + a.lo \div d)

\* The thresholds 1e10 and 1e13 of the digit branch.
E10 == Num(10, 0)
E13 == Num(10000, 0)

\* 9999-12-31 23:59:59, the last second datetime can hold: 253402300799.
MaxDatetime == Num(253, 402300799)

\* From 67768036191676800 seconds on, the year does not fit the C library's
\* struct tm and localtime() itself fails.
LocaltimeLimit == Num(67768036, 191676800)

\* Inputs of _extract_timestamp: None (or ""), a string one of the strptime
\* formats accepts, a string of digits, a string nothing accepts.
NoString == [form |-> "none"]
StrptimeString == [form |-> "strptime"]
OtherString == [form |-> "other"]
Digits(n) == [form |-> "digits", hi |-> n.hi, lo |-> n.lo]

\* Results: None, a datetime, or an exception leaving the extractor.
NoTimestamp == [kind |-> "none"]
Instant(unit, n) == [kind |-> "instant", unit |-> unit, hi |-> n.hi, lo |-> n.lo]
Raised(e) == [kind |-> "raised", error |-> e]

\* datetime.fromtimestamp(x), x seconds: "ok", or the exception it raises.
\* Past LocaltimeLimit the exception is the platform's: OverflowError or
\* OSError (documented for fromtimestamp), given as platform_error.
fromtimestamp(x, platform_error) ==
    IF Leq(x, MaxDatetime) THEN "ok"
    ELSE IF Less(x, LocaltimeLimit) THEN "ValueError"
    ELSE platform_error

\* if timestamp_str.isdigit(): the if / elif / else on the integer value and
\* the except (ValueError, OverflowError) around it.
digit_branch(n, platform_error) ==
    LET try(unit, x) ==
            LET r == fromtimestamp(x, platform_error)
            IN IF r = "ok" THEN Instant(unit, n)
               ELSE IF r \in {"ValueError", "OverflowError"} THEN NoTimestamp
               ELSE Raised(r)
    IN IF Less(E10, n) THEN try("ms", DivNum(n, 1000))
       ELSE IF Less(E13, n) THEN try("us", DivNum(n, 1000000))
       ELSE try("s", n)

\* The loop over formats (every strptime format rejects a string of digits;
\* the last format, '%s', is float() and fromtimestamp()), then the digit branch.
_extract_timestamp(ts, platform_error) ==
    CASE ts.form = "none" -> NoTimestamp
      [] ts.form = "strptime" -> Instant("strptime", Num(0, 0))
      [] ts.form = "other" -> NoTimestamp
      [] ts.form = "digits" ->
            LET n == Num(ts.hi, ts.lo)
                r == fromtimestamp(n, platform_error)
            IN IF r = "ok" THEN Instant("s", n)
               ELSE IF r \in {"ValueError", "TypeError", "OverflowError"}
               THEN digit_branch(n, platform_error)
               ELSE Raised(r)

\* Digit strings around every threshold of the extractor.
DigitHi ==
    {0, 1, 9, 10, 11, 253, 254, 1700, 9999, 10000, 10001, 253402, 253403,
     1700000, 67768035, 67768036, 99999999}

DigitLo == {0, 1, 191676800, 402300799, 402300800, 999999999}

TimestampStrings ==
    {NoString, StrptimeString, OtherString}
        \cup {Digits(Num(h, l)) : h \in DigitHi, l \in DigitLo}

(***************************************************************************)
(* Log content.  A content is the sequence of its lines between '\n'; the  *)
(* lines are drawn from a fixed set of sample lines, one for each case the *)
(* parsers tell apart.  What the library calls of the source (json.loads,  *)
(* csv.reader, re.match, re.findall) return for a sample line is tabulated *)
(* line by line.                                                           *)
(***************************************************************************)

\* Most lines of a content.
MaxLines == 3

L_EMPTY == ""
L_SPACES == "  "
L_JSON == "{\"level\":\"ERROR\",\"msg\":\"db down\"}"
L_JSON_EMPTY_MSG == "{\"msg\":\"\"}"
L_JSON_ARRAY == "[1,2]"
L_JSON_BAD == "{oops"
L_CSV_HEADER == "time,level,message"
L_CSV_ROW == "12:00,ERROR,db down"
L_CSV_EMPTY == ",,"
L_CSV_SHORT == "late,row"
L_SYSLOG_PRI == "<34>Oct 11 22:14:15 host su: failed"
L_SYSLOG_NOMSG == "Oct 11 22:14:15 host cron:"
L_KEYVALUE == "level=info msg=started"

\* The atoms of every string the extractors are given: the sample lines and
\* the fields, cells and groups taken out of them.
Tokenize(str) ==
    CASE str = L_JSON ->
            <<"{", "\"", "level", "\"", ":", "\"", "ERROR", "\"", ",", "\"", "msg",
              "\"", ":", "\"", "db", " ", "down", "\"", "}">>
      [] str = L_JSON_EMPTY_MSG -> <<"{", "\"", "msg", "\"", ":", "\"", "\"", "}">>
      [] str = L_JSON_ARRAY -> <<"[", "1", ",", "2", "]">>
      [] str = L_JSON_BAD -> <<"{", "oops">>
      [] str = L_CSV_HEADER -> <<"time", ",", "level", ",", "message">>
      [] str = L_CSV_ROW -> <<"12", ":", "00", ",", "ERROR", ",", "db", " ", "down">>
      [] str = L_CSV_EMPTY -> <<",", ",">>
      [] str = L_CSV_SHORT -> <<"late", ",", "row">>
      [] str = L_SYSLOG_PRI ->
            <<"<", "34", ">", "Oct", " ", "11", " ", "22", ":", "14", ":", "15", " ",
              "host", " ", "su", ":", " ", "failed">>
      [] str = L_SYSLOG_NOMSG ->
            <<"Oct", " ", "11", " ", "22", ":", "14", ":", "15", " ", "host", " ",
              "cron", ":">>
      [] str = L_KEYVALUE -> <<"level", "=", "info", " ", "msg", "=", "started">>
      [] str = L_SPACES -> <<" ", " ">>
      [] str = "{\"level\":\"ERROR\"" -> <<"{", "\"", "level", "\"", ":", "\"", "ERROR", "\"">>
      [] str = "msg:\"db down\"}" -> <<"msg", ":", "\"", "db", " ", "down", "\"", "}">>
      [] str = "[1" -> <<"[", "1">>
      [] str = "2]" -> <<"2", "]">>
      [] str = "12:00" -> <<"12", ":", "00">>
      [] str = "db down" -> <<"db", " ", "down">>
      [] str = "Oct 11 22:14:15" -> <<"Oct", " ", "11", " ", "22", ":", "14", ":", "15">>
      [] str = "DB Down" -> <<"DB", " ", "Down">>
      [] str = "db is down" -> <<"db", " ", "is", " ", "down">>
      [] str = "db was down" -> <<"db", " ", "was", " ", "down">>
      [] str = "job 123456 deadbeef-dead-beef-cafe-deadbeefdead failed" ->
            <<"job", " ", "123456", " ", "deadbeef", "-", "dead", "-", "beef", "-",
              "cafe", "-", "deadbeefdead", " ", "failed">>
      [] str = "job 654321 cafebabe-dead-beef-cafe-deadbeefdead failed" ->
            <<"job", " ", "654321", " ", "cafebabe", "-", "dead", "-", "beef", "-",
              "cafe", "-", "deadbeefdead", " ", "failed">>
      [] str = "job 123456 cafebabe-beef-dead-cafe-deadbeefdead failed" ->
            <<"job", " ", "123456", " ", "cafebabe", "-", "beef", "-", "dead", "-",
              "cafe", "-", "deadbeefdead", " ", "failed">>
      [] str = "" -> <<>>
      [] OTHER -> <<str>>

\* line.strip() is empty.
IsBlank(line) == line \in {L_EMPTY, L_SPACES}

\* str.split('\n') gives the lines; this is the list of the non-blank ones.
NonBlank(ls) == SelectSeq(ls, LAMBDA l : ~IsBlank(l))

\* content.strip().split('\n'): the lines from the first non-blank line to the
\* last one; one empty line when there is none.
strip_split(c) ==
    LET ink == {i \in 1..Len(c) : ~IsBlank(c[i])}
    IN IF ink = {} THEN <<L_EMPTY>> ELSE SubSeq(c, Min(ink), -Min({-i : i \in ink}))

\* content.splitlines(): a final line break ends the last line and opens no
\* new one.
splitlines(c) == IF c[Len(c)] = L_EMPTY THEN SubSeq(c, 1, Len(c) - 1) ELSE c

\* json.loads(line): "dict" with the decoded object as its (key, value) pairs
\* in order, "other" for any other JSON value, "error" for json.JSONDecodeError.
json_loads(line) ==
    CASE line = L_JSON ->
            [type |-> "dict", data |-> << <<"level", "ERROR">>, <<"msg", "db down">> >>]
      [] line = L_JSON_EMPTY_MSG -> [type |-> "dict", data |-> << <<"msg", "">> >>]
      [] line = L_JSON_ARRAY -> [type |-> "other", data |-> <<>>]
      [] OTHER -> [type |-> "error", data |-> <<>>]

\* next(csv.reader([line])) with the comma dialect: the cells of the line.
csv_cells(line) ==
    CASE line = L_EMPTY -> <<>>
      [] line = L_JSON -> <<"{\"level\":\"ERROR\"", "msg:\"db down\"}">>
      [] line = L_JSON_ARRAY -> <<"[1", "2]">>
      [] line = L_CSV_HEADER -> <<"time", "level", "message">>
      [] line = L_CSV_ROW -> <<"12:00", "ERROR", "db down">>
      [] line = L_CSV_EMPTY -> <<"", "", "">>
      [] line = L_CSV_SHORT -> <<"late", "row">>
      [] OTHER -> <<line>>

\* col.replace('_', '').replace(' ', '').isalpha() for a cell.
is_alpha_cell(cell) == cell \in {"time", "level", "message", "late", "row"}

\* Whether the sample holds one of the delimiters the Sniffer may choose.
has_delimiter(line) == Len(csv_cells(line)) >= 2

\* The line starts with one of the three syslog_patterns of _score_syslog_format.
matches_syslog_prefix(line) == line \in {L_SYSLOG_PRI, L_SYSLOG_NOMSG}

\* How many of the four structured_patterns are found in the line: the key: value
\* cue in "12:00", "22:14" and the key=value cue in "level=info".
structured_cues(line) ==
    IF line \in {L_CSV_ROW, L_SYSLOG_PRI, L_SYSLOG_NOMSG, L_KEYVALUE} THEN 1 ELSE 0

(***************************************************************************)
(* Format Detector: FileProcessor._detect_log_format and its scores.       *)
(* A score is a fraction [num, den] with den > 0.                          *)
(***************************************************************************)

Frac(n, d) == [num |-> n, den |-> d]

FracLess(a, b) == a.num * b.den < b.num * a.den

FracLeq(a, b) == a.num * b.den <= b.num * a.den

FracEq(a, b) == a.num * b.den = b.num * a.den

Head_(ls, n) == SubSeq(ls, 1, IF Len(ls) < n THEN Len(ls) ELSE n)

\* lines[:min(100, len(lines))]
SampleSize == 100

\* lines[:10], the Sniffer's sample; lines[:5], the rows read back
SniffSample == 10
CsvRows == 5

\* lines[:20] of the syslog and structured scores
ScoredLines == 20

\* self.detection_thresholds
json_confidence == Frac(7, 10)
csv_confidence == Frac(8, 10)
syslog_confidence == Frac(6, 10)
minimum_lines == 3

_format_from_extension(ext) ==
    CASE ext = ".json" -> "json"
      [] ext = ".csv" -> "csv"
      [] ext = ".syslog" -> "syslog"
      [] ext = ".log" -> "plain_text"
      [] ext = ".txt" -> "plain_text"
      [] OTHER -> "plain_text"

_score_json_format(ls) ==
    IF Len(ls) = 0 THEN Frac(0, 1)
    ELSE LET total_non_empty == Cardinality({i \in 1..Len(ls) : ~IsBlank(ls[i])})
             valid_json_count ==
                 Cardinality({i \in 1..Len(ls) :
                                 ~IsBlank(ls[i]) /\ json_loads(ls[i]).type = "dict"})
         IN IF total_non_empty = 0 THEN Frac(0, 1)
            ELSE Frac(valid_json_count, total_non_empty)

\* sniffed: csv.Sniffer().sniff() found a dialect.  It cannot when the sample
\* holds none of the delimiters; otherwise whether it does is the library's.
_score_csv_format(ls, sniffed) ==
    IF Len(ls) < 2 THEN Frac(0, 1)
    ELSE IF ~(sniffed /\ \E i \in 1..Len(Head_(ls, SniffSample)) : has_delimiter(ls[i]))
    THEN Frac(0, 1)
    ELSE LET rows == [i \in 1..Len(Head_(ls, CsvRows)) |-> csv_cells(ls[i])]
             header_cols == Len(rows[1])
             consistent_cols ==
                 Cardinality({i \in 2..Len(rows) : Len(rows[i]) = header_cols})
             header_bonus ==
                 IF \A k \in 1..header_cols : is_alpha_cell(rows[1][k]) THEN 1 ELSE 0
             \* consistency_score + header_bonus, over the denominator 5 * (len(rows) - 1)
             sum == Frac(5 * consistent_cols + header_bonus * (Len(rows) - 1),
                         5 * (Len(rows) - 1))
         IN IF Len(rows) < 2 THEN Frac(0, 1)
            ELSE IF header_cols < 2 THEN Frac(0, 1)
            ELSE IF FracLess(Frac(1, 1), sum) THEN Frac(1, 1) ELSE sum

_score_syslog_format(ls) ==
    LET checked == Head_(ls, ScoredLines)
        matching_lines ==
            Cardinality({i \in 1..Len(checked) : matches_syslog_prefix(checked[i])})
    IN IF Len(ls) = 0 THEN Frac(0, 1)
       ELSE Frac(matching_lines, IF Len(ls) < ScoredLines THEN Len(ls) ELSE ScoredLines)

RECURSIVE SumCues(_)
SumCues(ls) == IF ls = <<>> THEN 0 ELSE structured_cues(ls[1]) + SumCues(Tail(ls))

\* Each line adds min(line_score / 4, 1.0); line_score is at most 4.
_score_structured_format(ls) ==
    IF Len(ls) = 0 THEN Frac(0, 1)
    ELSE Frac(SumCues(Head_(ls, ScoredLines)),
              4 * (IF Len(ls) < ScoredLines THEN Len(ls) ELSE ScoredLines))

\* The keys of the scores dict, in insertion order.
Formats == <<"json", "csv", "syslog", "custom", "plain_text">>

\* The scores dict of _detect_log_format.
scores_of(ls, sniffed) ==
    LET sample_lines == Head_(ls, SampleSize)
    IN [f \in {Formats[i] : i \in 1..Len(Formats)} |->
           CASE f = "json" -> _score_json_format(sample_lines)
             [] f = "csv" -> _score_csv_format(sample_lines, sniffed)
             [] f = "syslog" -> _score_syslog_format(sample_lines)
             [] f = "custom" -> _score_structured_format(sample_lines)
             [] f = "plain_text" -> Frac(1, 10)]

\* max(scores, key=scores.get): the first key, in insertion order, whose score
\* no other exceeds.
best_of(scores) ==
    Formats[Min({i \in 1..Len(Formats) :
                    \A j \in 1..Len(Formats) : FracLeq(scores[Formats[j]], scores[Formats[i]])})]

\* The threshold tests with the syslog test left out.
apply_thresholds_no_syslog(best_format, conf) ==
    IF best_format = "json" /\ FracLess(conf, json_confidence)
    THEN <<"plain_text", Frac(1, 2)>>
    ELSE IF best_format = "csv" /\ FracLess(conf, csv_confidence)
    THEN <<"plain_text", Frac(1, 2)>>
    ELSE <<best_format, conf>>

\* "Apply thresholds": the if / elif chain that ends _detect_log_format.
apply_thresholds(best_format, conf) ==
    IF best_format = "json" /\ FracLess(conf, json_confidence)
    THEN <<"plain_text", Frac(1, 2)>>
    ELSE IF best_format = "csv" /\ FracLess(conf, csv_confidence)
    THEN <<"plain_text", Frac(1, 2)>>
    ELSE IF best_format = "syslog" /\ FracLess(conf, syslog_confidence)
    THEN <<"plain_text", Frac(1, 2)>>
    ELSE <<best_format, conf>>

\* The small-file branch taken from two lines on instead of three.
detect_small_below_two(c, ext, sniffed) ==
    LET ls == NonBlank(c)
        scores == scores_of(ls, sniffed)
    IN IF Len(ls) < minimum_lines - 1
       THEN <<_format_from_extension(ext), Frac(1, 2)>>
       ELSE apply_thresholds(best_of(scores), scores[best_of(scores)])

_detect_log_format(c, ext, sniffed) ==
    LET ls == NonBlank(c)
        scores == scores_of(ls, sniffed)
    IN IF Len(ls) < minimum_lines
       THEN <<_format_from_extension(ext), Frac(1, 2)>>
       ELSE apply_thresholds(best_of(scores), scores[best_of(scores)])

(***************************************************************************)
(* Entries.  A dict is the sequence of its (key, value) pairs in insertion *)
(* order.                                                                  *)
(***************************************************************************)

\* The LogEntry fields; parse_error is metadata["parse_error"], None when
\* the metadata has no such key.
LogEntry(ts, lvl, svc, msg, raw, n, perr) ==
    [timestamp |-> ts, level |-> lvl, service |-> svc, message |-> msg,
     raw_line |-> raw, line_number |-> n, parse_error |-> perr]

\* An exception left the constructor: the timestamp extractor raised.
Raises(e) == e.timestamp.kind = "raised"

\* d.get(k): the value of key k, None when d has no such key.
dict_get(d, k) ==
    LET at == {i \in 1..Len(d) : d[i][1] = k}
    IN IF at = {} THEN None ELSE d[Min(at)][2]

\* Python's truth of an Optional[str].
truthy(v) == v # None /\ v # ""

\* a or b or ... over a sequence of values: the first truthy one, else the last.
first_truthy(vs) ==
    LET at == {i \in 1..Len(vs) : truthy(vs[i])}
    IN IF at = {} THEN vs[Len(vs)] ELSE vs[Min(at)]

\* sep.join(strs)
RECURSIVE join(_, _)
join(sep, strs) ==
    IF strs = <<>> THEN ""
    ELSE IF Len(strs) = 1 THEN strs[1]
    ELSE strs[1] \o sep \o join(sep, Tail(strs))

\* The form _extract_timestamp sees in a string of the samples.
timestamp_form(str) ==
    CASE str = None -> NoString
      [] str = "" -> NoString
      [] str = "Oct 11 22:14:15" -> StrptimeString
      [] OTHER -> OtherString

_create_fallback_entry(line, line_num, reason) ==
    LogEntry(NoTimestamp, "INFO", None, IF line = "" THEN "(empty line)" ELSE line,
             line, line_num, reason)

\* The keys of self.timestamp_patterns, which the loop of
\* _create_log_entry_from_text hands to re.search as the patterns.
timestamp_pattern_names ==
    {"iso8601_with_tz", "iso8601_simple", "syslog", "us_format", "european",
     "unix_timestamp", "apache_common"}

\* The name found in the line, None when the line holds none of them.
pattern_name_in(line) ==
    IF \E i \in 1..Len(Tokenize(line)) : Tokenize(line)[i] \in timestamp_pattern_names
    THEN CHOOSE a \in timestamp_pattern_names :
             \E i \in 1..Len(Tokenize(line)) : Tokenize(line)[i] = a
    ELSE None

_create_log_entry_from_text(line, line_num, platform_error) ==
    LogEntry(_extract_timestamp(timestamp_form(pattern_name_in(line)), platform_error),
             _extract_log_level(Tokenize(line)), _extract_service(Tokenize(line)),
             line, line, line_num, None)

\* str(data) of a dict of strings.
repr_dict(data) ==
    "{" \o join(", ", [i \in 1..Len(data) |->
                          "'" \o data[i][1] \o "': '" \o data[i][2] \o "'"]) \o "}"

\* d.get(k, default)
dict_get_default(d, k, default) ==
    IF \E i \in 1..Len(d) : d[i][1] = k THEN dict_get(d, k) ELSE default

_create_log_entry_from_json(data, raw_line, line_num, platform_error) ==
    LogEntry(_extract_timestamp(
                 timestamp_form(first_truthy(<<dict_get(data, "timestamp"),
                                               dict_get(data, "time"),
                                               dict_get(data, "@timestamp")>>)),
                 platform_error),
             _extract_log_level(Tokenize(
                 dict_get_default(data, "level", dict_get_default(data, "severity", "")))),
             LET s == dict_get_default(data, "service",
                          dict_get_default(data, "logger", dict_get(data, "component")))
             IN IF truthy(s) THEN _extract_service(Tokenize(s)) ELSE None,
             dict_get_default(data, "message",
                 dict_get_default(data, "msg", repr_dict(data))),
             raw_line, line_num, None)

\* The first column of cols that the row has with a non-empty value; None
\* when the loop ends without a break.
first_column(row, cols) ==
    LET at == {i \in 1..Len(cols) : truthy(dict_get(row, cols[i]))}
    IN IF at = {} THEN None ELSE dict_get(row, cols[Min(at)])

\* ",".join(row.values()) raises TypeError when a value is None.
_create_log_entry_from_csv(row, line_num, platform_error) ==
    LET ts == first_column(row, <<"timestamp", "time", "datetime", "date">>)
        lv == first_column(row, <<"level", "severity", "loglevel">>)
        sv == first_column(row, <<"service", "logger", "component", "source">>)
        ms == first_column(row, <<"message", "msg", "description", "text">>)
        items == SelectSeq(row, LAMBDA kv : truthy(kv[2]))
        combined == join(" | ", [i \in 1..Len(items) |-> items[i][1] \o ": " \o items[i][2]])
        timestamp_ == _extract_timestamp(timestamp_form(ts), platform_error)
    IN IF timestamp_.kind # "raised" /\ \E i \in 1..Len(row) : row[i][2] = None
       THEN LogEntry(Raised("TypeError"), None, None, "", "", line_num, None)
       ELSE LogEntry(timestamp_,
                     IF lv = None THEN None ELSE _extract_log_level(Tokenize(lv)),
                     IF sv = None THEN None ELSE _extract_service(Tokenize(sv)),
                     IF ms = None THEN combined ELSE ms,
                     join(",", [i \in 1..Len(row) |-> row[i][2]]),
                     line_num, None)

\* The first of the five syslog_patterns that re.match finds at the start of
\* the line, as match.groupdict(): a group the pattern lacks is None; the
\* priority is the string of digits.
syslog_match(line) ==
    CASE line = L_SYSLOG_PRI ->
            [matched |-> TRUE, priority |-> "34", timestamp |-> "Oct 11 22:14:15",
             hostname |-> "host", service |-> None, tag |-> "su", message |-> "failed"]
      [] line = L_SYSLOG_NOMSG ->
            [matched |-> TRUE, priority |-> None, timestamp |-> "Oct 11 22:14:15",
             hostname |-> "host", service |-> "cron", tag |-> None, message |-> ""]
      [] OTHER ->
            [matched |-> FALSE, priority |-> None, timestamp |-> None,
             hostname |-> None, service |-> None, tag |-> None, message |-> None]

\* The decimal strings of 0, 1, 2, ... in order.
Decimal ==
    <<"0", "1", "2", "3", "4", "5", "6", "7", "8", "9", "10", "11", "12", "13",
      "14", "15", "16", "17", "18", "19", "20", "21", "22", "23", "24", "25",
      "26", "27", "28", "29", "30", "31", "32", "33", "34", "35", "36", "37",
      "38", "39", "40">>

\* int() of a string of digits.
int(str) == (CHOOSE i \in 1..Len(Decimal) : Decimal[i] = str) - 1

\* severity = int(priority) % 8 and the if / elif chain on it.
level_from_priority(priority) ==
    LET severity == int(priority) % 8
    IN IF severity <= 3 THEN "ERROR"
       ELSE IF severity = 4 THEN "WARN"
       ELSE IF severity <= 6 THEN "INFO"
       ELSE "DEBUG"

\* The constructor with the test on the priority made on its number: a
\* priority of 0 is taken for no priority.
syslog_entry_zero_absent(match, line, line_num, platform_error) ==
    LET service_ == first_truthy(<<match.service, match.tag>>)
        level_ == IF truthy(match.priority) /\ int(match.priority) # 0
                  THEN level_from_priority(match.priority)
                  ELSE _extract_log_level(Tokenize(match.message))
    IN LogEntry(IF truthy(match.timestamp)
                THEN _extract_timestamp(timestamp_form(match.timestamp), platform_error)
                ELSE NoTimestamp,
                level_,
                IF truthy(service_) THEN _extract_service(Tokenize(service_)) ELSE None,
                match.message, line, line_num, None)

\* if priority: is the truth of the string of digits, so "0" is a priority;
\* int() of the digits \d+ matched raises nothing; a LogLevel is truthy, so
\* if not level: is reached with a level only when there is no priority.
_create_log_entry_from_syslog_match(match, line, line_num, platform_error) ==
    LET service_ == first_truthy(<<match.service, match.tag>>)
        level_ == IF truthy(match.priority) THEN level_from_priority(match.priority)
                  ELSE _extract_log_level(Tokenize(match.message))
    IN LogEntry(IF truthy(match.timestamp)
                THEN _extract_timestamp(timestamp_form(match.timestamp), platform_error)
                ELSE NoTimestamp,
                level_,
                IF truthy(service_) THEN _extract_service(Tokenize(service_)) ELSE None,
                match.message, line, line_num, None)

\* structured_data after the loop over re.findall(kv_pattern, line).
kv_pairs(line) ==
    IF line = L_KEYVALUE THEN << <<"level", "info">>, <<"msg", "started">> >> ELSE <<>>

_create_log_entry_from_structured(line, line_num, platform_error) ==
    LET structured_data == kv_pairs(line)
        get(k) == dict_get(structured_data, k)
        level_ == first_truthy(<<get("level"), get("severity"),
                                 dict_get_default(structured_data, "loglevel", "")>>)
        service_ == first_truthy(<<get("service"), get("component"), get("logger")>>)
    IN IF structured_data = <<>>
       THEN _create_log_entry_from_text(line, line_num, platform_error)
       ELSE LogEntry(_extract_timestamp(
                         timestamp_form(first_truthy(<<get("timestamp"), get("time"), get("ts")>>)),
                         platform_error),
                     IF truthy(level_) THEN _extract_log_level(Tokenize(level_)) ELSE None,
                     IF truthy(service_) THEN _extract_service(Tokenize(service_)) ELSE None,
                     first_truthy(<<get("message"), get("msg"),
                                    join(" ", [i \in 1..Len(structured_data) |->
                                        structured_data[i][1] \o "=" \o structured_data[i][2]])>>),
                     line, line_num, None)

(***************************************************************************)
(* Parsers.  No sample line but the blank ones starts or ends with         *)
(* whitespace, so line.strip() leaves a non-blank line as it is.           *)
(***************************************************************************)

\* for line_num, line in enumerate(lines, 1): ... if not line: continue
\* The line numbers the loop body is reached with.
line_nums(ls) == SelectSeq([i \in 1..Len(ls) |-> i], LAMBDA i : ~IsBlank(ls[i]))

_parse_plain_text_logs(c, platform_error) ==
    LET ls == strip_split(c)
        at == line_nums(ls)
    IN [k \in 1..Len(at) |-> _create_log_entry_from_text(ls[at[k]], at[k], platform_error)]

\* The try / except of the loop body of _parse_json_logs for one line.
json_line_entry(line, n, platform_error) ==
    LET loaded == json_loads(line)
        entry == _create_log_entry_from_json(loaded.data, line, n, platform_error)
    IN IF loaded.type = "dict"
       THEN (IF Raises(entry) THEN _create_fallback_entry(line, n, "Unexpected error")
             ELSE entry)
       ELSE IF loaded.type = "other"
       THEN _create_fallback_entry(line, n, "Non-object JSON")
       ELSE _create_fallback_entry(line, n, "JSON decode error")

\* The loop left at the first line that is not a JSON object.
parse_json_until_bad(c, platform_error) ==
    LET ls == strip_split(c)
        bad == {i \in 1..Len(ls) : ~IsBlank(ls[i]) /\ json_loads(ls[i]).type # "dict"}
        at == line_nums(IF bad = {} THEN ls ELSE SubSeq(ls, 1, Min(bad)))
    IN [k \in 1..Len(at) |-> json_line_entry(ls[at[k]], at[k], platform_error)]

_parse_json_logs(c, platform_error) ==
    LET ls == strip_split(c)
        at == line_nums(ls)
    IN [k \in 1..Len(at) |-> json_line_entry(ls[at[k]], at[k], platform_error)]

\* The loop body of _parse_syslog_logs for one line.
syslog_line_entry(line, n, platform_error) ==
    LET match == syslog_match(line)
        entry == _create_log_entry_from_syslog_match(match, line, n, platform_error)
    IN IF match.matched
       THEN (IF Raises(entry) THEN _create_fallback_entry(line, n, "Syslog parse error")
             ELSE entry)
       ELSE _create_log_entry_from_text(line, n, platform_error)

_parse_syslog_logs(c, platform_error) ==
    LET ls == strip_split(c)
        at == line_nums(ls)
    IN [k \in 1..Len(at) |-> syslog_line_entry(ls[at[k]], at[k], platform_error)]

\* The loop body of _parse_structured_logs for one line.
structured_line_entry(line, n, platform_error) ==
    LET entry == _create_log_entry_from_structured(line, n, platform_error)
    IN IF Raises(entry) THEN _create_log_entry_from_text(line, n, platform_error)
       ELSE entry

_parse_structured_logs(c, platform_error) ==
    LET ls == strip_split(c)
        at == line_nums(ls)
    IN [k \in 1..Len(at) |-> structured_line_entry(ls[at[k]], at[k], platform_error)]

\* DictReader's row: dict(zip(fieldnames, cells)), a fieldname the row has no
\* cell for mapped to None (restval); the cells past the fieldnames go under
\* the key None, which cleaned_row drops.
cleaned_row(fieldnames, cells) ==
    LET firsts == SelectSeq([i \in 1..Len(fieldnames) |-> i],
                            LAMBDA i : \A j \in 1..(i - 1) : fieldnames[j] # fieldnames[i])
        last(k) == -Min({-i : i \in {j \in 1..Len(fieldnames) : fieldnames[j] = k}})
        value(i) == IF i <= Len(cells) THEN cells[i] ELSE None
    IN [n \in 1..Len(firsts) |->
           <<fieldnames[firsts[n]], value(last(fieldnames[firsts[n]]))>>]

\* The body of the for loop over the reader for one row.
csv_row_entry(lines, fieldnames, line, line_num, platform_error) ==
    LET row == cleaned_row(fieldnames, csv_cells(line))
        entry == _create_log_entry_from_csv(row, line_num, platform_error)
        raw_line == IF line_num - 1 < Len(lines) THEN lines[line_num] ELSE ""
    IN IF row = <<>> THEN _create_fallback_entry("", line_num, "Empty CSV row")
       ELSE IF Raises(entry) THEN _create_fallback_entry(raw_line, line_num, "CSV parse error")
       ELSE entry

\* The rows the reader yields after the header: csv.DictReader skips the rows
\* without a cell, which are the empty lines.
data_rows(lines) == SelectSeq(Tail(lines), LAMBDA l : csv_cells(l) # <<>>)

\* The parser without its fallback to plain text.
parse_csv_no_fallback(c, platform_error) ==
    LET lines == splitlines(c)
        fieldnames == IF lines = <<>> THEN <<>> ELSE csv_cells(lines[1])
        rows == IF lines = <<>> THEN <<>> ELSE data_rows(lines)
    IN [n \in 1..Len(rows) |->
           csv_row_entry(lines, fieldnames, rows[n], n + 1, platform_error)]

\* The two raise LogParsingError in the try block send the content to
\* _parse_plain_text_logs; the rows are numbered by enumerate(reader, 2).
_parse_csv_logs(c, platform_error) ==
    LET lines == splitlines(c)
        fieldnames == csv_cells(lines[1])
        rows == data_rows(lines)
    IN IF Len(lines) < 2 THEN _parse_plain_text_logs(c, platform_error)
       ELSE IF fieldnames = <<>> THEN _parse_plain_text_logs(c, platform_error)
       ELSE [n \in 1..Len(rows) |->
                csv_row_entry(lines, fieldnames, rows[n], n + 1, platform_error)]

(***************************************************************************)
(* Entry points                                                            *)
(***************************************************************************)

\* not content.strip()
is_blank_content(c) == \A i \in 1..Len(c) : IsBlank(c[i])

\* The if / elif chain on file_format.
parse_as(fmt, c, platform_error) ==
    CASE fmt = "json" -> _parse_json_logs(c, platform_error)
      [] fmt = "csv" -> _parse_csv_logs(c, platform_error)
      [] fmt = "syslog" -> _parse_syslog_logs(c, platform_error)
      [] fmt = "custom" -> _parse_structured_logs(c, platform_error)
      [] OTHER -> _parse_plain_text_logs(c, platform_error)

\* The exception that leaves a parser: the one a text entry's timestamp
\* raised, None when the parser returns.
parse_error_of(es) ==
    IF \E i \in 1..Len(es) : Raises(es[i])
    THEN (LET i == Min({j \in 1..Len(es) : Raises(es[j])}) IN es[i].timestamp.error)
    ELSE None

\* process_content: entries, format and the exception that leaves it.
process_content(c, ext, sniffed, platform_error) ==
    LET fmt == _detect_log_format(c, ext, sniffed)[1]
        es == parse_as(fmt, c, platform_error)
    IN IF is_blank_content(c)
       THEN [entries |-> <<>>, file_format |-> "plain_text", error |-> None]
       ELSE IF parse_error_of(es) # None
       THEN [entries |-> <<>>, file_format |-> None, error |-> parse_error_of(es)]
       ELSE [entries |-> es, file_format |-> fmt, error |-> None]

\* process_file on a file holding c: entries and the exception that leaves it.
process_file(c, ext, sniffed, platform_error) ==
    LET fmt == _detect_log_format(c, ext, sniffed)[1]
        es == parse_as(fmt, c, platform_error)
    IN IF is_blank_content(c)
       THEN [entries |-> <<>>, error |-> "LogParsingError"]
       ELSE IF parse_error_of(es) # None
       THEN [entries |-> <<>>, error |-> "LogParsingError"]
       ELSE [entries |-> es, error |-> None]

(***************************************************************************)
(* Normalizers: PatternDetector._normalize_message and                     *)
(* LogAnalyzer._normalize_error_message, on a message given as its atoms.  *)
(* A pattern between \b and \b matches whole word atoms.  The timestamp    *)
(* pattern is taken in its form date, one space, time; it and the URL      *)
(* pattern have no \b and are taken to start at the start of an atom.      *)
(***************************************************************************)

\* Words of lower-case hexadecimal digits.
IsHex(a) == IsDigits(a) \/ a \in {"deadbeef", "dead", "beef", "deadbeefdead", "cafe", "cafebabe"}

\* One atom against one piece of a pattern: \d{n}, \d{1,3}, \d{6,}, \d+,
\* [0-9a-f]{n}, https?, or a literal character.
in_class(a, c) ==
    CASE c = "d4" -> IsDigits(a) /\ Len(a) = 4
      [] c = "d2" -> IsDigits(a) /\ Len(a) = 2
      [] c = "d1_3" -> IsDigits(a) /\ Len(a) <= 3
      [] c = "d6_" -> IsDigits(a) /\ Len(a) >= 6
      [] c = "d1_" -> IsDigits(a)
      [] c = "x8" -> IsHex(a) /\ Len(a) = 8
      [] c = "x4" -> IsHex(a) /\ Len(a) = 4
      [] c = "x12" -> IsHex(a) /\ Len(a) = 12
      [] c = "https?" -> a \in {"http", "https"}
      [] OTHER -> a = c

\* The pattern p, a sequence of pieces, matches at the start of t.
matches_at(p, t) ==
    Len(p) <= Len(t) /\ \A k \in 1..Len(p) : in_class(t[k], p[k])

\* re.sub(p, repl, t): every match, leftmost first, replaced by the atoms repl.
RECURSIVE re_sub(_, _, _)
re_sub(p, repl, t) ==
    IF t = <<>> THEN <<>>
    ELSE IF matches_at(p, t) THEN repl \o re_sub(p, repl, SubSeq(t, Len(p) + 1, Len(t)))
    ELSE <<t[1]>> \o re_sub(p, repl, Tail(t))

\* Adjacent words are one word: the atoms of the string again.
RECURSIVE merge_words(_)
merge_words(t) ==
    IF Len(t) < 2 THEN t
    ELSE IF IsWord(t[1]) /\ IsWord(t[2])
    THEN merge_words(<<t[1] \o t[2]>> \o SubSeq(t, 3, Len(t)))
    ELSE <<t[1]>> \o merge_words(Tail(t))

\* \d{4}-\d{2}-\d{2}[T\s]\d{2}:\d{2}:\d{2}...
timestamp_regex == <<"d4", "-", "d2", "-", "d2", " ", "d2", ":", "d2", ":", "d2">>

\* \b[0-9a-f]{8}-[0-9a-f]{4}-[0-9a-f]{4}-[0-9a-f]{4}-[0-9a-f]{12}\b
uuid_regex == <<"x8", "-", "x4", "-", "x4", "-", "x4", "-", "x12">>

\* \b\d{1,3}\.\d{1,3}\.\d{1,3}\.\d{1,3}\b
ip_regex == <<"d1_3", ".", "d1_3", ".", "d1_3", ".", "d1_3">>

\* [^\s]*: how far the atoms of t go before the first whitespace.
run_end(t) ==
    IF \E i \in 1..Len(t) : t[i] = " " THEN Min({i \in 1..Len(t) : t[i] = " "}) - 1
    ELSE Len(t)

\* re.sub(r'https?://[^\s]+', '<URL>', t)
RECURSIVE sub_url(_)
sub_url(t) ==
    IF t = <<>> THEN <<>>
    ELSE IF matches_at(<<"https?", ":", "/", "/">>, t) /\ run_end(t) >= 5
    THEN <<"<", "URL", ">">> \o sub_url(SubSeq(t, run_end(t) + 1, Len(t)))
    ELSE <<t[1]>> \o sub_url(Tail(t))

\* re.sub(r'[/\\][^\s]*[/\\][^\s]*', '<PATH>', t): from a separator that has
\* another one after it before the next whitespace, to that whitespace.
RECURSIVE sub_path(_)
sub_path(t) ==
    IF t = <<>> THEN <<>>
    ELSE IF t[1] = "/" /\ \E k \in 2..run_end(t) : t[k] = "/"
    THEN <<"<", "PATH", ">">> \o sub_path(SubSeq(t, run_end(t) + 1, Len(t)))
    ELSE <<t[1]>> \o sub_path(Tail(t))

\* re.sub(r'"[^"]*"', '"<STRING>"', t), and the same with q = "'": a quote and
\* the next quote after it, with what is between them.
RECURSIVE sub_quoted(_, _)
sub_quoted(q, t) ==
    IF t = <<>> THEN <<>>
    ELSE IF t[1] = q /\ \E k \in 2..Len(t) : t[k] = q
    THEN <<q, "<", "STRING", ">", q>>
             \o sub_quoted(q, SubSeq(t, Min({k \in 2..Len(t) : t[k] = q}) + 1, Len(t)))
    ELSE <<t[1]>> \o sub_quoted(q, Tail(t))

\* re.sub(r'\s+', ' ', t).strip()
RECURSIVE collapse(_)
collapse(t) ==
    IF Len(t) < 2 THEN t
    ELSE IF t[1] = " " /\ t[2] = " " THEN collapse(Tail(t))
    ELSE <<t[1]>> \o collapse(Tail(t))

\* PatternDetector._normalize_message: the ten substitutions in order.
_normalize_message(t) ==
    LET n1 == re_sub(timestamp_regex, <<"<", "TIMESTAMP", ">">>, t)
        n2 == re_sub(uuid_regex, <<"<", "UUID", ">">>, n1)
        n3 == re_sub(<<"d6_">>, <<"<", "ID", ">">>, n2)
        n4 == re_sub(ip_regex, <<"<", "IP", ">">>, n3)
        n5 == sub_url(n4)
        n6 == sub_path(n5)
        n7 == sub_quoted("\"", n6)
        n8 == sub_quoted("'", n7)
        n9 == re_sub(<<"d1_">>, <<"<", "NUM", ">">>, n8)
    IN strip(collapse(n9))

\* re.sub(r'[/\\][^\s]+', 'FILE_PATH', t)
RECURSIVE sub_file_path(_)
sub_file_path(t) ==
    IF t = <<>> THEN <<>>
    ELSE IF t[1] = "/" /\ run_end(t) >= 2
    THEN <<"FILE_PATH">> \o sub_file_path(SubSeq(t, run_end(t) + 1, Len(t)))
    ELSE <<t[1]>> \o sub_file_path(Tail(t))

\* LogAnalyzer._normalize_error_message: the six substitutions in order.  A
\* placeholder is a word and joins the word it comes to stand next to.
normalize_error_atoms(t) ==
    LET n1 == merge_words(re_sub(timestamp_regex, <<"TIMESTAMP">>, t))
        n2 == re_sub(uuid_regex, <<"UUID">>, n1)
        n3 == re_sub(<<"d6_">>, <<"ID">>, n2)
        n4 == re_sub(ip_regex, <<"IP_ADDRESS">>, n3)
        n5 == merge_words(sub_file_path(n4))
    IN re_sub(<<"d1_">>, <<"NUMBER">>, n5)

(***************************************************************************)
(* LogAnalyzer.analyze_file                                                *)
(***************************************************************************)

\* No LogAnalysis: the call has not returned one.
NoAnalysis == [kind |-> "none"]

\* _normalize_error_message on the string a message stands for.
_normalize_error_message(message) == Join(normalize_error_atoms(Tokenize(message)))

(***************************************************************************)
(* LogAnalyzer: distributions, filtering and pagination, timeline.         *)
(*                                                                         *)
(* A dict is the sequence of its (key, value) pairs in insertion order.    *)
(* A datetime is an Instant of so many seconds; its fields are read in the *)
(* calendar of the epoch's time zone, day 0 being the day of the epoch.    *)
(***************************************************************************)

\* if entry.timestamp: a datetime is truthy, None is not.
has_timestamp(e) == e.timestamp.kind = "instant"

\* timestamp.hour, .minute, .second and the date of a datetime.
day_of(ts) == ts.lo \div 86400
hour_of(ts) == (ts.lo % 86400) \div 3600
minute_of(ts) == (ts.lo % 3600) \div 60
second_of(ts) == ts.lo % 60

\* timestamp.replace(hour=h, minute=m, second=0, microsecond=0)
replace(ts, h, m) == [ts EXCEPT !.lo = day_of(ts) * 86400 + h * 3600 + m * 60]

\* datetime.isoformat(): "YYYY-MM-DDTHH:MM:SS", fields of fixed width, given
\* as the fields in the order the string has them.
isoformat(ts) == <<day_of(ts), hour_of(ts), minute_of(ts), second_of(ts)>>

\* a < b for two such strings: the first field that differs decides.
iso_less(a, b) ==
    \E k \in 1..4 : a[k] < b[k] /\ \A j \in 1..(k - 1) : a[j] = b[j]

\* min() and max() of the timestamps of a set of entries' positions.
min_timestamp(es, S) ==
    es[CHOOSE i \in S : \A j \in S : Leq(es[i].timestamp, es[j].timestamp)].timestamp
max_timestamp(es, S) ==
    es[CHOOSE i \in S : \A j \in S : Leq(es[j].timestamp, es[i].timestamp)].timestamp

\* Positions at which a key is used for the first time, in order: the keys
\* of a defaultdict filled in a loop over keys.
first_uses(keys) ==
    SelectSeq([i \in 1..Len(keys) |-> i], LAMBDA i : \A j \in 1..(i - 1) : keys[j] # keys[i])

\* distribution[key] += 1 for every key of the sequence.
counts(keys) ==
    CHOOSE r \in
        {[n \in 1..Len(uses) |->
             <<keys[uses[n]], Cardinality({j \in 1..Len(keys) : keys[j] = keys[uses[n]]})>>] :
            uses \in {first_uses(keys)}} : TRUE

\* sorted(..., key=count, reverse=True) on the counts ks: the positions in
\* sorted order.  The sort is stable, with reverse=True as well.
sorted_desc(ks) ==
    [n \in 1..Len(ks) |->
        CHOOSE i \in 1..Len(ks) :
            n = 1 + Cardinality({j \in 1..Len(ks) : ks[j] > ks[i] \/ (ks[j] = ks[i] /\ j < i)})]

\* The loop without its else branch: an entry without a level is not counted.
level_distribution_known_only(es) ==
    counts([i \in 1..Len(SelectSeq(es, LAMBDA e : e.level # None)) |->
               SelectSeq(es, LAMBDA e : e.level # None)[i].level])

_get_level_distribution(es) ==
    counts([i \in 1..Len(es) |-> IF es[i].level # None THEN es[i].level ELSE "INFO"])

\* sorted_services[:20]
TopServices == 20

\* distribution of _get_service_distribution: entry.service or "unknown".
service_counts(es) ==
    counts([i \in 1..Len(es) |-> IF truthy(es[i].service) THEN es[i].service ELSE "unknown"])

\* sorted(distribution.items(), key=lambda x: x[1], reverse=True)
sorted_by_count(d) ==
    CHOOSE r \in {[n \in 1..Len(d) |-> d[order[n]]] :
                     order \in {sorted_desc([i \in 1..Len(d) |-> d[i][2]])}} : TRUE

\* The first 20 names met, not the 20 most frequent.
service_distribution_first_seen(es) == Head_(service_counts(es), TopServices)

_get_service_distribution(es) == Head_(sorted_by_count(service_counts(es)), TopServices)

\* The characters of a word of the sample messages and search terms; an atom
\* that is not listed is a single character, or a word that holds no letter
\* of a search term and is kept whole.
chars_of(a) ==
    CASE a = "db" -> <<"d", "b">>
      [] a = "DB" -> <<"D", "B">>
      [] a = "down" -> <<"d", "o", "w", "n">>
      [] a = "Down" -> <<"D", "o", "w", "n">>
      [] a = "DOWN" -> <<"D", "O", "W", "N">>
      [] a = "b d" -> <<"b", " ", "d">>
      [] a = "is" -> <<"i", "s">>
      [] a = "was" -> <<"w", "a", "s">>
      [] a = "ok" -> <<"o", "k">>
      [] a = "job" -> <<"j", "o", "b">>
      [] a = "failed" -> <<"f", "a", "i", "l", "e", "d">>
      [] a = "dead" -> <<"d", "e", "a", "d">>
      [] a = "beef" -> <<"b", "e", "e", "f">>
      [] a = "deadbeef" -> <<"d", "e", "a", "d", "b", "e", "e", "f">>
      [] a = "cafe" -> <<"c", "a", "f", "e">>
      [] a = "cafebabe" -> <<"c", "a", "f", "e", "b", "a", "b", "e">>
      [] a = "deadbeefdead" -> <<"d", "e", "a", "d", "b", "e", "e", "f", "d", "e", "a", "d">>
      [] OTHER -> <<a>>

\* The characters of a string.
RECURSIVE chars_of_atoms(_)
chars_of_atoms(t) == IF t = <<>> THEN <<>> ELSE chars_of(t[1]) \o chars_of_atoms(Tail(t))

chars(str) == chars_of_atoms(Tokenize(str))

\* str.lower(), character by character.
lower_char(c) ==
    CASE c = "D" -> "d" [] c = "B" -> "b" [] c = "O" -> "o" [] c = "W" -> "w"
      [] c = "N" -> "n" [] OTHER -> c

str_lower(cs) == [i \in 1..Len(cs) |-> lower_char(cs[i])]

\* sub in s, for strings given as their characters.
contains(sub, s) ==
    \E i \in 0..(Len(s) - Len(sub)) : SubSeq(s, i + 1, i + Len(sub)) = sub

\* The tests without the one on the level.
passes_any_level(e, level_filter, service_filter, search_term) ==
    /\ ~(truthy(service_filter) /\ (~truthy(e.service) \/ e.service # service_filter))
    /\ ~(/\ truthy(search_term)
         /\ ~contains(str_lower(chars(search_term)), str_lower(chars(e.message))))

\* The three tests of the loop of get_entries: the entry is not skipped.
passes(e, level_filter, service_filter, search_term) ==
    /\ ~(truthy(level_filter) /\ (e.level = None \/ e.level # level_filter))
    /\ ~(truthy(service_filter) /\ (~truthy(e.service) \/ e.service # service_filter))
    /\ ~(/\ truthy(search_term)
         /\ ~contains(str_lower(chars(search_term)), str_lower(chars(e.message))))

\* seq[a:b] for a, b >= 0.
slice(seq, a, b) == SubSeq(seq, a + 1, IF b < Len(seq) THEN b ELSE Len(seq))

\* The dict of an entry; no timestamp is the empty sequence of fields.
_entry_to_dict(e) ==
    [timestamp |-> IF has_timestamp(e) THEN isoformat(e.timestamp) ELSE <<>>,
     level |-> e.level, service |-> e.service, message |-> e.message,
     line_number |-> e.line_number]

\* total taken after the slice: the length of the page.
get_entries_page_total(es, offset, limit, level_filter, service_filter, search_term) ==
    LET filtered_entries ==
            SelectSeq(es, LAMBDA e : passes(e, level_filter, service_filter, search_term))
        paginated_entries == slice(filtered_entries, offset, offset + limit)
    IN [entries |-> [i \in 1..Len(paginated_entries) |-> _entry_to_dict(paginated_entries[i])],
        total |-> Len(paginated_entries), offset |-> offset, limit |-> limit]

get_entries(es, offset, limit, level_filter, service_filter, search_term) ==
    LET filtered_entries ==
            SelectSeq(es, LAMBDA e : passes(e, level_filter, service_filter, search_term))
        paginated_entries == slice(filtered_entries, offset, offset + limit)
    IN [entries |-> [i \in 1..Len(paginated_entries) |-> _entry_to_dict(paginated_entries[i])],
        total |-> Len(filtered_entries), offset |-> offset, limit |-> limit]

\* interval_map.get(interval, 60)
_parse_interval(interval) ==
    CASE interval = "1m" -> 1
      [] interval = "5m" -> 5
      [] interval = "15m" -> 15
      [] interval = "30m" -> 30
      [] interval = "1h" -> 60
      [] interval = "2h" -> 120
      [] interval = "6h" -> 360
      [] interval = "12h" -> 720
      [] interval = "1d" -> 1440
      [] OTHER -> 60

\* The seconds of the timestamp kept.
round_timestamp_keeps_seconds(ts, interval_minutes) ==
    LET total_minutes == hour_of(ts) * 60 + minute_of(ts)
        rounded_minutes == (total_minutes \div interval_minutes) * interval_minutes
    IN [ts EXCEPT !.lo = day_of(ts) * 86400 + rounded_minutes * 60 + second_of(ts)]

_round_timestamp(ts, interval_minutes) ==
    LET total_minutes == hour_of(ts) * 60 + minute_of(ts)
        rounded_minutes == (total_minutes \div interval_minutes) * interval_minutes
    IN replace(ts, rounded_minutes \div 60, rounded_minutes % 60)

\* The if / elif chain on entry.level of get_timeline_data.
level_class(lvl) ==
    IF lvl \in {"ERROR", "FATAL", "CRITICAL"} THEN "error"
    ELSE IF lvl \in {"WARN", "WARNING"} THEN "warn"
    ELSE IF lvl = "INFO" THEN "info"
    ELSE "other"

\* grouped_data after the loop: for the entries of levels lv and bucket keys
\* keys, one row for each key in the order the keys were first met.
bucket_rows(lv, keys) ==
    CHOOSE rows \in
        {[n \in 1..Len(at) |->
             [timestamp |-> keys[at[n]],
              error_count |-> Cardinality({i \in 1..Len(keys) :
                                  keys[i] = keys[at[n]] /\ level_class(lv[i]) = "error"}),
              warn_count |-> Cardinality({i \in 1..Len(keys) :
                                  keys[i] = keys[at[n]] /\ level_class(lv[i]) = "warn"}),
              info_count |-> Cardinality({i \in 1..Len(keys) :
                                  keys[i] = keys[at[n]] /\ level_class(lv[i]) = "info"}),
              other_count |-> Cardinality({i \in 1..Len(keys) :
                                  keys[i] = keys[at[n]] /\ level_class(lv[i]) = "other"}),
              total_count |-> Cardinality({i \in 1..Len(keys) : keys[i] = keys[at[n]]})]] :
            at \in {first_uses(keys)}} : TRUE

\* sorted(rows, key=lambda x: x["timestamp"])
sorted_by_timestamp(rows) ==
    CHOOSE r \in
        {[n \in 1..Len(rows) |-> rows[CHOOSE i \in 1..Len(rows) : rank[i] = n]] :
            rank \in
                {[i \in 1..Len(rows) |->
                     1 + Cardinality({j \in 1..Len(rows) :
                             \/ iso_less(rows[j].timestamp, rows[i].timestamp)
                             \/ rows[j].timestamp = rows[i].timestamp /\ j < i})]}} : TRUE

\* grouped_data of get_timeline_data for the timestamped entries te.
timeline_rows(te, interval) ==
    bucket_rows([i \in 1..Len(te) |-> te[i].level],
                [i \in 1..Len(te) |->
                    isoformat(_round_timestamp(te[i].timestamp, _parse_interval(interval)))])

\* The rows in the order of the dict, not sorted.
timeline_unsorted(es, interval) == timeline_rows(SelectSeq(es, has_timestamp), interval)

get_timeline_data(es, interval) ==
    sorted_by_timestamp(timeline_rows(SelectSeq(es, has_timestamp), interval))

\* hourly_data of _generate_time_series for the timestamped entries te.
hourly_rows(te) ==
    bucket_rows([i \in 1..Len(te) |-> te[i].level],
                [i \in 1..Len(te) |->
                    isoformat(replace(te[i].timestamp, hour_of(te[i].timestamp), 0))])

\* TimeSeriesData has no other_count: an entry of another level is counted
\* in total_count only.
_generate_time_series(es) ==
    CHOOSE r \in
        {[n \in 1..Len(rows) |->
             [timestamp |-> rows[n].timestamp, error_count |-> rows[n].error_count,
              warn_count |-> rows[n].warn_count, info_count |-> rows[n].info_count,
              total_count |-> rows[n].total_count]] :
            rows \in {sorted_by_timestamp(hourly_rows(SelectSeq(es, has_timestamp)))}} : TRUE

\* patterns[:10]
TopPatterns == 10

\* The positions of the sequence at which it holds the key k, in order:
\* matching_entries, as positions.
members(keys, k) == SelectSeq([i \in 1..Len(keys) |-> i], LAMBDA i : keys[i] = k)

\* The dict appended to patterns for the group of key k in the error entries
\* ee of normalized messages norms; min() of no timestamp raises ValueError.
error_pattern(ee, norms, k) ==
    CHOOSE r \in
        {[pattern |-> k,
          count |-> Len(m),
          examples |-> [i \in 1..Len(Head_(m, 3)) |-> ee[m[i]].message],
          severity |-> IF Len(m) > 10 THEN "high" ELSE "medium",
          category |-> "error",
          first_occurrence |->
              IF \E i \in 1..Len(m) : has_timestamp(ee[m[i]])
              THEN min_timestamp(ee, {m[i] : i \in {j \in 1..Len(m) : has_timestamp(ee[m[j]])}})
              ELSE Raised("ValueError"),
          last_occurrence |->
              IF \E i \in 1..Len(m) : has_timestamp(ee[m[i]])
              THEN max_timestamp(ee, {m[i] : i \in {j \in 1..Len(m) : has_timestamp(ee[m[j]])}})
              ELSE Raised("ValueError")] :
            m \in {members(norms, k)}} : TRUE

\* sorted(patterns, key=lambda x: x["count"], reverse=True)
sorted_patterns(patterns) ==
    CHOOSE r \in {[n \in 1..Len(patterns) |-> patterns[order[n]]] :
                     order \in {sorted_desc([i \in 1..Len(patterns) |-> patterns[i].count])}} : TRUE

\* The second loop of _detect_error_patterns, over the groups of the dict
\* error_patterns, and its return: the groups of two or more in the order of
\* the dict, sorted by count and cut; the exception that leaves it, None when
\* it returns.
error_patterns_of(ee, norms) ==
    CHOOSE r \in
        {IF \E n \in 1..Len(patterns) : patterns[n].first_occurrence.kind = "raised"
         THEN [error |-> "ValueError", patterns |-> <<>>]
         ELSE [error |-> None, patterns |-> Head_(sorted_patterns(patterns), TopPatterns)] :
            patterns \in
                {[n \in 1..Len(kept) |-> error_pattern(ee, norms, kept[n][1])] :
                    kept \in {SelectSeq(counts(norms), LAMBDA kv : kv[2] >= 2)}}} : TRUE

\* _detect_error_patterns after error_entries is made.
error_patterns_from(ee) ==
    CHOOSE r \in
        {error_patterns_of(ee, norms) :
            norms \in {[i \in 1..Len(ee) |-> _normalize_error_message(ee[i].message)]}} : TRUE

\* The entries of every level clustered.
detect_error_patterns_all_levels(es) == error_patterns_from(es)

_detect_error_patterns(es) ==
    error_patterns_from(SelectSeq(es, LAMBDA e : e.level \in {"ERROR", "FATAL", "CRITICAL"}))

\* analyze_file after its call of process_file, whose outcome is processed:
\* the LogAnalysis and the exception that leaves it.  With the few entries of
\* a sample content the anomaly detectors and the time series find nothing to
\* report and raise nothing.
analysis_of(processed) ==
    LET error_patterns == _detect_error_patterns(processed.entries)
    IN IF processed.error # None
       THEN [analysis |-> NoAnalysis, error |-> processed.error]
       ELSE IF processed.entries = <<>>
       THEN [analysis |-> [kind |-> "result", total_entries |-> 0, error_patterns |-> <<>>],
             error |-> None]
       ELSE IF error_patterns.error # None
       THEN [analysis |-> NoAnalysis, error |-> error_patterns.error]
       ELSE [analysis |-> [kind |-> "result", total_entries |-> Len(processed.entries),
                           error_patterns |-> error_patterns.patterns],
             error |-> None]

\* analyze_file on a file holding c.
analyze_file(c, ext, sniffed, platform_error) ==
    CHOOSE result \in {analysis_of(processed) :
                          processed \in {process_file(c, ext, sniffed, platform_error)}} : TRUE

(***************************************************************************)
(* LogAnalyzer: anomaly detection.  An anomaly is the dict appended; its   *)
(* description is the text and the number put into it.  A mean is a sum    *)
(* over a length: count > avg * k is count * length > k * sum.             *)
(***************************************************************************)

\* sum(values)
RECURSIVE sum_to(_, _)
sum_to(values, n) == IF n = 0 THEN 0 ELSE sum_to(values, n - 1) + values[n]
sum(values) == sum_to(values, Len(values))

\* sorted(entries, key=lambda x: x.timestamp): a stable sort.
sorted_by_time(te) ==
    CHOOSE r \in
        {[n \in 1..Len(te) |-> te[CHOOSE i \in 1..Len(te) : rank[i] = n]] :
            rank \in
                {[i \in 1..Len(te) |->
                     1 + Cardinality({j \in 1..Len(te) :
                             \/ te[j].timestamp.lo < te[i].timestamp.lo
                             \/ te[j].timestamp.lo = te[i].timestamp.lo /\ j < i})]}} : TRUE

\* The loop over time_gaps: the gaps over the threshold and over 300
\* seconds, in order, each with the entry before it.
time_gap_anomalies(te, time_gaps, total) ==
    CHOOSE r \in
        {[n \in 1..Len(flagged) |->
             [type |-> "time_gap",
              description |-> <<"Large gap in logging: ", time_gaps[flagged[n]], "/60 minutes">>,
              timestamp |-> isoformat(te[flagged[n]].timestamp),
              severity |-> "medium",
              affected_entries |-> 0]] :
            flagged \in
                {SelectSeq([i \in 1..Len(time_gaps) |-> i],
                           LAMBDA i : /\ time_gaps[i] * Len(time_gaps) > total * 10
                                      /\ time_gaps[i] > 300)}} : TRUE

\* _detect_time_anomalies on its sorted timestamped entries.
time_anomalies_of(te) ==
    IF Len(te) < 10 THEN <<>>
    ELSE CHOOSE r \in
        {time_gap_anomalies(te, time_gaps, sum(time_gaps)) :
            time_gaps \in {[i \in 1..(Len(te) - 1) |->
                              te[i + 1].timestamp.lo - te[i].timestamp.lo]}} : TRUE

_detect_time_anomalies(es) ==
    CHOOSE r \in {time_anomalies_of(te) : te \in {sorted_by_time(SelectSeq(es, has_timestamp))}} :
        TRUE

\* The pairs (key, count) of a defaultdict(int) filled in a loop over keys,
\* and the dicts of the keys whose count is over factor times the mean and
\* over floor; over_severity when over 5 times the mean.
spike_anomalies(kc, total, floor, anomaly_type, head_text, tail_text, over_severity, else_severity) ==
    CHOOSE r \in
        {[n \in 1..Len(flagged) |->
             [type |-> anomaly_type,
              description |-> <<head_text, flagged[n][2], tail_text>>,
              timestamp |-> flagged[n][1],
              severity |-> IF flagged[n][2] * Len(kc) > total * 5
                           THEN over_severity ELSE else_severity,
              affected_entries |-> flagged[n][2]]] :
            flagged \in
                {SelectSeq(kc, LAMBDA p : p[2] * Len(kc) > total * 3 /\ p[2] > floor)}} : TRUE

\* hourly_counts of the entries, and the anomalies of _detect_volume_anomalies.
volume_anomalies_of(hourly_counts) ==
    IF Len(hourly_counts) < 3 THEN <<>>
    ELSE spike_anomalies(hourly_counts,
                         sum([i \in 1..Len(hourly_counts) |-> hourly_counts[i][2]]), 100,
                         "volume_spike", "Unusual high log volume: ", " entries in 1 hour",
                         "medium", "low")

\* The mean taken over the other hours, the hour itself left out.
volume_anomalies_mean_of_others(es) ==
    CHOOSE r \in
        {IF Len(hc) < 3 THEN <<>>
         ELSE LET flagged == SelectSeq(hc, LAMBDA p :
                                 /\ p[2] * (Len(hc) - 1) >
                                       (sum([i \in 1..Len(hc) |-> hc[i][2]]) - p[2]) * 3
                                 /\ p[2] > 100)
              IN [n \in 1..Len(flagged) |->
                     [type |-> "volume_spike",
                      description |-> <<"Unusual high log volume: ", flagged[n][2],
                                        " entries in 1 hour">>,
                      timestamp |-> flagged[n][1],
                      severity |-> "low",
                      affected_entries |-> flagged[n][2]]] :
            hc \in {counts([i \in 1..Len(SelectSeq(es, has_timestamp)) |->
                       isoformat(replace(SelectSeq(es, has_timestamp)[i].timestamp,
                                         hour_of(SelectSeq(es, has_timestamp)[i].timestamp),
                                         0))])}} : TRUE

_detect_volume_anomalies(es) ==
    CHOOSE r \in
        {volume_anomalies_of(counts([i \in 1..Len(te) |->
             isoformat(replace(te[i].timestamp, hour_of(te[i].timestamp), 0))])) :
            te \in {SelectSeq(es, has_timestamp)}} : TRUE

\* _detect_error_spikes on its error entries ee.
error_spikes_of(interval_errors) ==
    IF Len(interval_errors) < 3 THEN <<>>
    ELSE spike_anomalies(interval_errors,
                         sum([i \in 1..Len(interval_errors) |-> interval_errors[i][2]]), 10,
                         "error_spike", "Error spike: ", " errors in 10 minutes",
                         "high", "medium")

error_spikes_from(ee) ==
    IF Len(ee) < 10 THEN <<>>
    ELSE error_spikes_of(counts([i \in 1..Len(ee) |->
             isoformat(replace(ee[i].timestamp, hour_of(ee[i].timestamp),
                               (minute_of(ee[i].timestamp) \div 10) * 10))]))

\* The entries of every level bucketed.
error_spikes_all_levels(es) ==
    CHOOSE r \in {error_spikes_from(ee) : ee \in {SelectSeq(es, has_timestamp)}} : TRUE

_detect_error_spikes(es) ==
    CHOOSE r \in
        {error_spikes_from(ee) :
            ee \in {SelectSeq(es, LAMBDA e :
                       e.level \in {"ERROR", "FATAL", "CRITICAL"} /\ has_timestamp(e))}} : TRUE

\* anomalies[:10]
TopAnomalies == 10

\* if len(entries) > 100
MinEntriesForTime == 100

\* The time anomalies whatever the number of entries.
detect_anomalies_time_always(es) ==
    Head_(_detect_time_anomalies(es) \o _detect_volume_anomalies(es) \o _detect_error_spikes(es),
          TopAnomalies)

_detect_anomalies(es) ==
    Head_((IF Len(es) > MinEntriesForTime THEN _detect_time_anomalies(es) ELSE <<>>)
            \o _detect_volume_anomalies(es) \o _detect_error_spikes(es),
          TopAnomalies)

(***************************************************************************)
(* PatternDetector._detect_repetitive_patterns                             *)
(***************************************************************************)

\* len(normalized) > 10
MinNormalizedLen == 10

\* len(matching_entries) >= 5
MinRepeats == 5

\* max_length of _truncate_message.
max_length == 80

_truncate_message(message) ==
    IF Len(message) <= max_length THEN message
    ELSE Join(SubSeq(chars(message), 1, max_length - 3)) \o "..."

\* frequency > 0.1, > 0.05, for frequency = pattern_count / total_entries.
_calculate_severity(pattern_count, total_entries) ==
    IF total_entries > 0 /\ FracLess(Frac(1, 10), Frac(pattern_count, total_entries))
    THEN "high"
    ELSE IF total_entries > 0 /\ FracLess(Frac(1, 20), Frac(pattern_count, total_entries))
    THEN "medium"
    ELSE "low"

\* The PatternMatch of the group of key k among the entries ke, of normalized
\* messages norms, kept out of total_entries entries.
repetitive_pattern(ke, norms, k, total_entries) ==
    CHOOSE r \in
        {[pattern |-> "Repetitive: " \o _truncate_message(ke[m[1]].message),
          count |-> Len(m),
          examples |-> [i \in 1..Len(Head_(m, 3)) |-> ke[m[i]].message],
          severity |-> _calculate_severity(Len(m), total_entries),
          category |-> IF \E i \in 1..Len(m) : ke[m[i]].level = "ERROR" THEN "error"
                       ELSE IF \E i \in 1..Len(m) : ke[m[i]].level \in {"WARN", "WARNING"}
                       THEN "warning"
                       ELSE "info",
          first_occurrence |->
              IF \E i \in 1..Len(m) : has_timestamp(ke[m[i]])
              THEN min_timestamp(ke, {m[i] : i \in {j \in 1..Len(m) : has_timestamp(ke[m[j]])}})
              ELSE NoTimestamp,
          last_occurrence |->
              IF \E i \in 1..Len(m) : has_timestamp(ke[m[i]])
              THEN max_timestamp(ke, {m[i] : i \in {j \in 1..Len(m) : has_timestamp(ke[m[j]])}})
              ELSE NoTimestamp] :
            m \in {members(norms, k)}} : TRUE

\* The second loop of _detect_repetitive_patterns: one pattern for each group
\* of MinRepeats or more, in the order of the dict.
repetitive_patterns_of(ke, norms, total_entries) ==
    CHOOSE r \in
        {[n \in 1..Len(kept) |-> repetitive_pattern(ke, norms, kept[n][1], total_entries)] :
            kept \in {SelectSeq(counts(norms), LAMBDA kv : kv[2] >= MinRepeats)}} : TRUE

\* The patterns of the entries ke the first loop kept.
repetitive_patterns_from(ke, total_entries) ==
    CHOOSE r \in
        {repetitive_patterns_of(ke, norms, total_entries) :
            norms \in {[i \in 1..Len(ke) |-> Join(_normalize_message(Tokenize(ke[i].message)))]}} :
        TRUE

\* The first loop with len(normalized) >= 10.
detect_repetitive_from_ten(es) ==
    repetitive_patterns_from(
        SelectSeq(es, LAMBDA e :
            Len(Join(_normalize_message(Tokenize(e.message)))) >= MinNormalizedLen),
        Len(es))

_detect_repetitive_patterns(es) ==
    repetitive_patterns_from(
        SelectSeq(es, LAMBDA e :
            Len(Join(_normalize_message(Tokenize(e.message)))) > MinNormalizedLen),
        Len(es))

LevelTexts == {t \in AtomSeqs(LevelWords \cup {"[", "]", " "}, MaxTextLen) : WellFormed(t)}

(***************************************************************************)
(* ChatService (chat_service.py) and the endpoints whose module-level      *)
(* instances share its session store.  A dict keyed by session identifier  *)
(* is a function whose value tells whether the key is present; a file      *)
(* context is the set of its keys and its total_entries; a ChatMessage is  *)
(* its role and its content, the content a text and the number of the      *)
(* exchange it belongs to.                                                 *)
(***************************************************************************)

\* chat_service = ChatService() of files.py, analysis.py and chat.py.
Instances == {"files", "analysis", "chat"}

\* The identifiers uuid4() can hand out, and the session identifiers: a file
\* identifier, or one a chat client chose.
FileIds == {"f1"}
SessionIds == FileIds \cup {"s1"}

MAX_CHAT_HISTORY == 50

\* {}
EmptyDict == [keys |-> {}, total_entries |-> 0]

\* A key that is not in a dict of histories, of contexts; also the None that
\* dict.get returns for it.
NoHistory == [present |-> FALSE, value |-> <<>>]
NoContext == [present |-> FALSE, value |-> EmptyDict]
Stored(v) == [present |-> TRUE, value |-> v]

\* No file <session_id>.pkl.
NoSessionFile == [exists |-> FALSE, chat_history |-> <<>>, file_context |-> EmptyDict]

\* bool(file_context) of an Optional[Dict].
context_truthy(c) == c.present /\ c.value.keys # {}

\* context and context.get("total_entries", 0) > 0
has_entries(c) == context_truthy(c) /\ c.value.total_entries > 0

\* What one instance works on: its two dicts and the session directory.
state_of(i) ==
    [chat_histories |-> chat_histories[i],
     file_contexts |-> file_contexts[i],
     session_files |-> session_files]

_save_session_data(st, session_id) ==
    [st EXCEPT !.session_files[session_id] =
        [exists |-> TRUE,
         chat_history |-> st.chat_histories[session_id].value,
         file_context |-> st.file_contexts[session_id].value]]

_load_session_data(st, session_id) ==
    IF ~st.session_files[session_id].exists
    THEN st
    ELSE [st EXCEPT
            !.chat_histories[session_id] = Stored(st.session_files[session_id].chat_history),
            !.file_contexts[session_id] = Stored(st.session_files[session_id].file_context)]

\* ChatService.set_file_context: the state it leaves.
set_file_context(st, session_id, file_context) ==
    _save_session_data(
        [_load_session_data(st, session_id) EXCEPT
            !.file_contexts[session_id] = Stored(file_context)],
        session_id)

\* ChatService.get_file_context: the state it leaves; what it returns is the
\* entry of session_id in file_contexts of that state.
get_file_context(st, session_id) ==
    IF ~st.file_contexts[session_id].present
    THEN _load_session_data(st, session_id)
    ELSE st

\* ChatService.get_chat_history: the state it leaves; what it returns is the
\* value of session_id in chat_histories of that state, [] without one.
get_chat_history(st, session_id) ==
    IF ~st.chat_histories[session_id].present
    THEN _load_session_data(st, session_id)
    ELSE st

\* ChatService.clear_session
clear_session(st, session_id) ==
    [st EXCEPT !.chat_histories[session_id] = NoHistory,
               !.file_contexts[session_id] = NoContext,
               !.session_files[session_id] = NoSessionFile]

\* How the request to /api/generate ends: with a text, with an empty text,
\* with httpx.TimeoutException, with another httpx.HTTPError, with another
\* exception.
Outcomes == {"answer", "empty", "timeout", "http_error", "exception"}

\* ai_response at the end of the try statement.
ai_response_of(outcome) ==
    CASE outcome = "answer" -> "answer"
      [] outcome = "empty" -> "I'm sorry, I couldn't generate a response."
      [] outcome = "timeout" -> "Request Timeout"
      [] outcome = "http_error" -> "Connection Error"
      [] outcome = "exception" -> "Unexpected Error"

ChatMessage(role, body, n) == [role |-> role, content |-> <<body, n>>]

\* The two messages generate_response appends for exchange n.
exchange(n, outcome) ==
    <<ChatMessage("user", "question", n),
      ChatMessage("assistant", ai_response_of(outcome), n)>>

\* updated_history[-k:]
last_items(seq, k) == SubSeq(seq, Len(seq) - k + 1, Len(seq))

\* The first MAX_CHAT_HISTORY messages kept instead of the last.
generate_response_keeps_first(n, chat_history, is_healthy, outcome) ==
    IF ~is_healthy
    THEN chat_history
    ELSE CHOOSE kept \in
            {IF Len(updated_history) > MAX_CHAT_HISTORY
             THEN SubSeq(updated_history, 1, MAX_CHAT_HISTORY)
             ELSE updated_history :
                updated_history \in {chat_history \o exchange(n, outcome)}} : TRUE

\* ChatService.generate_response: the context of the ChatResponse, for the
\* n-th message of the session.
generate_response(n, chat_history, is_healthy, outcome) ==
    IF ~is_healthy
    THEN chat_history
    ELSE CHOOSE kept \in
            {IF Len(updated_history) > MAX_CHAT_HISTORY
             THEN last_items(updated_history, MAX_CHAT_HISTORY)
             ELSE updated_history :
                updated_history \in {chat_history \o exchange(n, outcome)}} : TRUE

\* The state before the call of generate_response.
session_loaded(st, session_id, file_context) ==
    get_chat_history(
        IF context_truthy(file_context)
        THEN set_file_context(st, session_id, file_context.value)
        ELSE get_file_context(st, session_id),
        session_id)

\* ChatService.generate_session_response: the state it leaves.
generate_session_response(st, session_id, n, file_context, is_healthy, outcome) ==
    CHOOSE after \in
        {_save_session_data(
            [loaded EXCEPT !.chat_histories[session_id] =
                Stored(generate_response(n, loaded.chat_histories[session_id].value,
                                         is_healthy, outcome))],
            session_id) :
         loaded \in {session_loaded(st, session_id, file_context)}} : TRUE

\* check_ollama_health: the check is skipped after a recent healthy one, or
\* it finds the model, or it does not.
Probes == {"skipped", "up", "down"}

can_probe(i, probe) ==
    probe = "skipped" => (last_health_check[i] # None /\ connection_healthy[i])

is_healthy_of(probe) == probe # "down"

check_ollama_health(i, probe) ==
    IF probe = "skipped"
    THEN UNCHANGED <<connection_healthy, last_health_check>>
    ELSE /\ connection_healthy' = [connection_healthy EXCEPT ![i] = (probe = "up")]
         /\ last_health_check' = [last_health_check EXCEPT ![i] = "checked"]

\* The dict _create_session_context stores, the dicts get_enhanced_file_context
\* returns.
created_context(total) == [keys |-> {"total_entries", "file_id"}, total_entries |-> total]
enhanced_context(total) ==
    IF total = 0
    THEN [keys |-> {"total_entries", "message"}, total_entries |-> 0]
    ELSE [keys |-> {"total_entries", "format"}, total_entries |-> total]

\* No file <file_id>_<name> in UPLOAD_DIR.
NoUpload == [stored |-> FALSE, total |-> 0]

\* Nothing answered yet.
NoReply ==
    [endpoint |-> "none", id |-> None, status |-> 0, context |-> NoContext,
     chat_history |-> <<>>, healthy |-> FALSE]

IdleSessions ==
    /\ chat_histories = [i \in Instances |-> [s \in SessionIds |-> NoHistory]]
    /\ file_contexts = [i \in Instances |-> [s \in SessionIds |-> NoContext]]
    /\ connection_healthy = [i \in Instances |-> TRUE]
    /\ last_health_check = [i \in Instances |-> None]
    /\ session_files = [s \in SessionIds |-> NoSessionFile]
    /\ uploads = [f \in FileIds |-> NoUpload]
    /\ issued = {}
    /\ conversation = [s \in SessionIds |-> <<>>]
    /\ reply = NoReply

\* Values of the variables a specification does not use.
IdleLevel == text = <<>> /\ level = None
IdleService == service_input = <<>> /\ service = None
IdleTimestamp == timestamp_str = NoString /\ timestamp = NoTimestamp

IdleFile ==
    /\ content = <<L_EMPTY>> /\ filename = "" /\ file_format = None
    /\ confidence = Frac(0, 1) /\ entries = <<>> /\ error = None
    /\ analysis = NoAnalysis
IdleLeaf == IdleLevel /\ IdleService /\ IdleTimestamp

\* No LogEntry, no arguments, nothing returned.
NoEntry == [kind |-> "none"]
NoRequest == [op |-> "none"]
NoResponse == [kind |-> "none"]

IdleSyslog == groups = syslog_match(L_EMPTY) /\ log_entry = NoEntry
IdleNormalizer == message_atoms = <<>> /\ normalized_atoms = <<>>
IdleAnalyzer == request = NoRequest /\ response = NoResponse
IdleCall == IdleSyslog /\ IdleNormalizer /\ IdleAnalyzer


InitLevel ==
    /\ pc = "ready"
    /\ IdleSessions
    /\ text \in LevelTexts
    /\ level = None
    /\ IdleService
    /\ IdleTimestamp
    /\ IdleFile
    /\ IdleCall

ExtractLogLevel ==
    /\ pc = "ready"
    /\ level' = _extract_log_level(text)
    /\ pc' = "_extract_log_level"
    /\ UNCHANGED <<text, service_input, service, timestamp_str, timestamp, file_vars, call_vars,
                   session_vars>>

NextLevel == ExtractLogLevel

SpecLevel == InitLevel /\ [][NextLevel]_vars

InitService ==
    /\ pc = "ready"
    /\ IdleSessions
    /\ service_input \in ServiceInputs
    /\ service = None
    /\ IdleLevel
    /\ IdleTimestamp
    /\ IdleFile
    /\ IdleCall

ExtractService ==
    /\ pc = "ready"
    /\ service' = _extract_service(service_input)
    /\ pc' = "_extract_service"
    /\ UNCHANGED <<text, level, service_input, timestamp_str, timestamp, file_vars, call_vars,
                   session_vars>>

NextService == ExtractService

SpecService == InitService /\ [][NextService]_vars

InitTimestamp ==
    /\ pc = "ready"
    /\ IdleSessions
    /\ timestamp_str \in TimestampStrings
    /\ timestamp = NoTimestamp
    /\ IdleLevel
    /\ IdleService
    /\ IdleFile
    /\ IdleCall

ExtractTimestamp ==
    /\ pc = "ready"
    /\ \E platform_error \in {"OverflowError", "OSError"} :
          timestamp' = _extract_timestamp(timestamp_str, platform_error)
    /\ pc' = "_extract_timestamp"
    /\ UNCHANGED <<text, level, service_input, service, timestamp_str, file_vars, call_vars,
                   session_vars>>

NextTimestamp == ExtractTimestamp

SpecTimestamp == InitTimestamp /\ [][NextTimestamp]_vars

(***************************************************************************)
(* The syslog constructor on the groups of one matched line.               *)
(***************************************************************************)

\* Largest <priority> value of a line.
MaxPriority == 16

\* The message group: empty, without a level keyword, and with one.
SyslogMessages == {"", "ok", "db down", "failed", "warning", "info", "debug", "fatal"}

\* match.groupdict() of the first syslog pattern, which alone has a priority
\* and names the program tag, and of the second, which names it service.
SyslogGroups ==
    {[matched |-> TRUE, priority |-> Decimal[p + 1], timestamp |-> "Oct 11 22:14:15",
      hostname |-> "host", service |-> None, tag |-> "su", message |-> msg] :
        p \in 0..MaxPriority, msg \in SyslogMessages}
    \cup
    {[matched |-> TRUE, priority |-> None, timestamp |-> "Oct 11 22:14:15",
      hostname |-> "host", service |-> "cron", tag |-> None, message |-> msg] :
        msg \in SyslogMessages}

\* The line the groups were matched in.
line_of(g) ==
    IF g.priority # None
    THEN "<" \o g.priority \o ">" \o g.timestamp \o " host su: " \o g.message
    ELSE g.timestamp \o " host cron: " \o g.message

InitSyslog ==
    /\ pc = "ready"
    /\ IdleSessions
    /\ groups \in SyslogGroups
    /\ log_entry = NoEntry
    /\ IdleLeaf
    /\ IdleFile
    /\ IdleNormalizer
    /\ IdleAnalyzer

CreateLogEntryFromSyslogMatch ==
    /\ pc = "ready"
    /\ \E platform_error \in {"OverflowError", "OSError"} :
          log_entry' = _create_log_entry_from_syslog_match(groups, line_of(groups), 1,
                                                          platform_error)
    /\ pc' = "_create_log_entry_from_syslog_match"
    /\ UNCHANGED <<leaf_vars, session_vars, file_vars, groups, message_atoms, normalized_atoms,
                   request, response>>

NextSyslog == CreateLogEntryFromSyslogMatch

SpecSyslog == InitSyslog /\ [][NextSyslog]_vars

(***************************************************************************)
(* The two normalizers, each applied to a message and then to its result.  *)
(***************************************************************************)

\* Longest message, in atoms, given to a normalizer.
MaxMessageLen == 5

\* A word, a number, a number of six digits, both quotes, the path
\* separator and whitespace.
NormAtoms == {"db", "12", "123456", "\"", "'", "/", " "}

NormMessages == {t \in AtomSeqs(NormAtoms, MaxMessageLen) : WellFormed(t)}

InitNormalizer ==
    /\ pc = "ready"
    /\ IdleSessions
    /\ message_atoms \in NormMessages
    /\ normalized_atoms = <<>>
    /\ IdleLeaf
    /\ IdleFile
    /\ IdleSyslog
    /\ IdleAnalyzer

NormalizeMessage ==
    /\ pc = "ready"
    /\ normalized_atoms' = _normalize_message(message_atoms)
    /\ pc' = "_normalize_message"
    /\ UNCHANGED <<leaf_vars, session_vars, file_vars, groups, log_entry, message_atoms, request, response>>

\* The normalizer called on what it returned.
NormalizeMessageAgain ==
    /\ pc = "_normalize_message"
    /\ message_atoms' = normalized_atoms
    /\ normalized_atoms' = _normalize_message(normalized_atoms)
    /\ pc' = "_normalize_message again"
    /\ UNCHANGED <<leaf_vars, session_vars, file_vars, groups, log_entry, request, response>>

NormalizeErrorMessage ==
    /\ pc = "ready"
    /\ normalized_atoms' = normalize_error_atoms(message_atoms)
    /\ pc' = "_normalize_error_message"
    /\ UNCHANGED <<leaf_vars, session_vars, file_vars, groups, log_entry, message_atoms, request, response>>

NormalizeErrorMessageAgain ==
    /\ pc = "_normalize_error_message"
    /\ message_atoms' = normalized_atoms
    /\ normalized_atoms' = normalize_error_atoms(normalized_atoms)
    /\ pc' = "_normalize_error_message again"
    /\ UNCHANGED <<leaf_vars, session_vars, file_vars, groups, log_entry, request, response>>

NextNormalizer ==
    \/ NormalizeMessage
    \/ NormalizeMessageAgain
    \/ NormalizeErrorMessage
    \/ NormalizeErrorMessageAgain

SpecNormalizer == InitNormalizer /\ [][NextNormalizer]_vars

(***************************************************************************)
(* The analyzer and the pattern detector on the entries of a file.  Every  *)
(* call starts with process_file; entries is what it returned.             *)
(***************************************************************************)

\* Most entries of a list made of the sample entries.
MaxEntries == 3

\* datetime(day, hour, minute, second)
at(day, h, m, sec) == Instant("s", Num(0, day * 86400 + h * 3600 + m * 60 + sec))

\* An entry of a plain line: the line is the message.
entry_of(ts, lvl, svc, msg) == LogEntry(ts, lvl, svc, msg, msg, 1, None)

\* The entries in the order of their lines.
Numbered(es) == [i \in 1..Len(es) |-> [es[i] EXCEPT !.line_number = i]]

\* [e] * n
Repeat(e, n) == [i \in 1..n |-> e]

\* One entry for each level class, with and without timestamp and service.
SampleEntries ==
    { entry_of(at(0, 0, 59, 59), "ERROR", "db", "db down"),
      entry_of(NoTimestamp, "ERROR", None, "db down"),
      entry_of(at(0, 1, 0, 0), "FATAL", "api", "DB Down"),
      entry_of(at(1, 7, 44, 30), "CRITICAL", "api", "db down"),
      entry_of(at(0, 0, 59, 59), "WARN", "db", "db is down"),
      entry_of(at(0, 1, 30, 0), "WARNING", None, "db was down"),
      entry_of(at(1, 23, 59, 59), "INFO", "api", "ok"),
      entry_of(at(0, 12, 30, 0), None, None, "job 123456 deadbeef-dead-beef-cafe-deadbeefdead failed") }

ServiceNames ==
    <<"s01", "s02", "s03", "s04", "s05", "s06", "s07", "s08", "s09", "s10", "s11",
      "s12", "s13", "s14", "s15", "s16", "s17", "s18", "s19", "s20", "s21", "s22">>

\* k entries of k services, then up to two more of the first service, of the
\* last one and of none.
ServiceTails(k) ==
    UNION {[1..n -> {entry_of(NoTimestamp, "INFO", "s01", "ok"),
                     entry_of(NoTimestamp, "INFO", ServiceNames[k], "ok"),
                     entry_of(NoTimestamp, "INFO", None, "ok")}] : n \in 0..2}

ManyServices ==
    UNION {{[i \in 1..k |-> entry_of(NoTimestamp, "INFO", ServiceNames[i], "ok")] \o tail :
               tail \in ServiceTails(k)} : k \in {19, 20, 21, 22}}

ErrorWords ==
    <<"e01", "e02", "e03", "e04", "e05", "e06", "e07", "e08", "e09", "e10", "e11", "e12">>

\* k error messages met twice each, the last of them up to twice more, among
\* warnings of the same messages; and one message met ten and eleven times.
ManyErrors ==
    {[i \in 1..(2 * k) |->
         entry_of(at(0, 0, 0, i), "ERROR", None, ErrorWords[((i - 1) % k) + 1])]
       \o Repeat(entry_of(at(0, 0, 1, 0), lvl, None, ErrorWords[k]), more) :
        k \in {9, 10, 11, 12}, more \in 0..2, lvl \in {"ERROR", "WARN"}}
    \cup {Repeat(entry_of(at(0, 0, 0, 0), "ERROR", "db", "db down"), n) : n \in {10, 11}}

\* The scenario of three errors that differ by an id and a UUID among twelve
\* entries, one of the three with a timestamp or none.
Scenario ==
    {<<entry_of(ts, "ERROR", "db", "job 123456 deadbeef-dead-beef-cafe-deadbeefdead failed"),
       entry_of(NoTimestamp, "ERROR", "db", "job 654321 cafebabe-dead-beef-cafe-deadbeefdead failed"),
       entry_of(NoTimestamp, "ERROR", "db", "job 123456 cafebabe-beef-dead-cafe-deadbeefdead failed")>>
       \o Repeat(entry_of(NoTimestamp, "INFO", "db", "ok"), 9) :
        ts \in {at(0, 0, 0, 0), NoTimestamp}}

\* A message of 7, of 10 and of 11 characters met a times among f entries
\* that say ok, for counts and totals on both sides of 5 repeats and of the
\* frequencies 10% and 5%.
Repetitive ==
    {Repeat(entry_of(at(0, 0, 0, 0), "INFO", "db", msg), af[1])
       \o Repeat(entry_of(NoTimestamp, "INFO", "db", "ok"), af[2]) :
        msg \in {"db down", "db is down", "db was down"},
        af \in {<<4, 0>>, <<5, 0>>, <<5, 44>>, <<5, 45>>, <<5, 46>>, <<5, 94>>, <<5, 95>>,
                <<5, 96>>, <<6, 94>>, <<10, 90>>, <<11, 89>>}}

\* n entries, the first k at one time and the others at another, gap seconds
\* apart, in the order of time or against it, and one entry without a
\* timestamp; thirty entries with two gaps; one gap among 100 and 101 entries.
GapLists ==
    {[i \in 1..n |->
         entry_of(at(0, 0, 0, IF (i <= k) = in_order THEN 0 ELSE gap), "INFO", None, "ok")]
       \o <<entry_of(NoTimestamp, "INFO", None, "ok")>> :
        n \in {9, 11, 12, 13}, k \in {1, 5}, gap \in {299, 300, 301, 3600},
        in_order \in BOOLEAN}
    \cup {[i \in 1..30 |->
              entry_of(at(0, 0, 0, IF i <= 10 THEN 0 ELSE IF i <= 20 THEN gap ELSE 2 * gap + 1),
                       "INFO", None, "ok")] : gap \in {300, 301}}
    \cup {[i \in 1..n |-> entry_of(at(0, 0, 0, IF i <= 50 THEN 0 ELSE 3600), "INFO", None, "ok")] :
             n \in {100, 101}}

\* The entries of bursts: cv[j] entries in the j-th interval of width seconds,
\* step seconds apart, the last interval late seconds later; the levels named
\* in turn.
RECURSIVE bursts(_, _, _, _, _, _)
bursts(cv, j, width, step, levels, late) ==
    IF j > Len(cv) THEN <<>>
    ELSE [i \in 1..cv[j] |->
             entry_of(at(0, 0, 0, (j - 1) * width + (IF j = Len(cv) THEN late ELSE 0)
                                    + (((i - 1) * step) % width)),
                      levels[((i - 1) % Len(levels)) + 1], None, "ok")]
           \o bursts(cv, j + 1, width, step, levels, late)

\* Hours of these numbers of entries: counts on both sides of 100, of 3 times
\* and of 5 times the mean, in two hours and more.
VolumeLists ==
    {bursts(cv, 1, 3600, 60, <<"INFO">>, 0) :
        cv \in {<<101, 1, 1>>, <<101, 1, 1, 1>>, <<101, 1, 1, 1, 1, 1, 1>>, <<100, 1, 1, 1>>,
                <<101, 1>>, <<102, 12, 11, 11>>, <<103, 12, 11, 11>>, <<105, 5, 4, 4, 4, 4>>,
                <<106, 5, 4, 4, 4, 4>>, <<1, 1, 101, 1, 1, 1, 1>>,
                <<101, 1, 1, 1, 1, 1, 102>>}}

\* Intervals of ten minutes of these numbers of error entries, alone, among
\* warnings and with error entries that have no timestamp.
ErrorSpikeLists ==
    {bursts(cv, 1, 600, 50, <<"ERROR", "FATAL", "CRITICAL">>, 0) \o more :
        cv \in {<<11, 1, 1>>, <<11, 1, 1, 1>>, <<11, 1, 1, 1, 1, 1, 1, 1, 1, 1>>,
                <<10, 1, 1, 1, 1>>, <<12, 1>>, <<7, 1, 1>>, <<7, 1, 1, 1>>, <<12, 2, 1, 1>>,
                <<13, 2, 1, 1>>, <<1, 12, 1, 1, 1, 1, 1, 1, 1, 1, 11>>},
        more \in {<<>>,
                  Repeat(entry_of(at(0, 0, 10, 0), "WARN", None, "ok"), 20),
                  Repeat(entry_of(NoTimestamp, "ERROR", None, "ok"), 5)}}

\* Ten and eleven intervals of eleven errors and thirty-one of one, the last
\* of them at once and a day late.
Storms ==
    {bursts([j \in 1..(k + 31) |-> IF j <= k THEN 11 ELSE 1], 1, 600, 50, <<"ERROR">>, late) :
        k \in {10, 11}, late \in {0, 86400}}

EntryLists ==
    {Numbered(es) :
        es \in UNION {[1..k -> SampleEntries] : k \in 0..MaxEntries}
                 \cup ManyServices \cup ManyErrors \cup Scenario \cup Repetitive
                 \cup GapLists \cup VolumeLists \cup ErrorSpikeLists \cup Storms}

\* offset and limit of get_entries.
Pages == {<<0, 0>>, <<0, 2>>, <<1, 1>>, <<2, 5>>}

\* level_filter, service_filter and search_term of get_entries; None and ""
\* are no filter.
Filters ==
    {<<None, None, None>>, <<"ERROR", None, None>>, <<"INFO", None, None>>, <<"", "db", None>>,
     <<None, None, "DOWN">>, <<"ERROR", "db", "b d">>, <<None, "api", "">>}

\* The tokens of interval_map and one that is none of them.
Intervals == {"1m", "5m", "15m", "30m", "1h", "2h", "6h", "12h", "1d", "2w"}

InitAnalyzer ==
    /\ pc = "ready"
    /\ IdleSessions
    /\ entries \in EntryLists
    /\ content = <<L_EMPTY>> /\ filename = "" /\ file_format = None
    /\ confidence = Frac(0, 1) /\ error = None /\ analysis = NoAnalysis
    /\ request = NoRequest
    /\ response = NoResponse
    /\ IdleLeaf
    /\ IdleSyslog
    /\ IdleNormalizer

analyzer_unchanged ==
    UNCHANGED <<leaf_vars, session_vars, content, filename, file_format, confidence, entries, analysis,
                groups, log_entry, message_atoms, normalized_atoms>>

GetLevelDistribution ==
    /\ pc = "ready"
    /\ request' = [op |-> "_get_level_distribution"]
    /\ response' = _get_level_distribution(entries)
    /\ pc' = "_get_level_distribution"
    /\ UNCHANGED error
    /\ analyzer_unchanged

GetServiceDistribution ==
    /\ pc = "ready"
    /\ request' = [op |-> "_get_service_distribution"]
    /\ response' = _get_service_distribution(entries)
    /\ pc' = "_get_service_distribution"
    /\ UNCHANGED error
    /\ analyzer_unchanged

GetEntries ==
    /\ pc = "ready"
    /\ \E page \in Pages, f \in Filters :
          /\ request' = [op |-> "get_entries", offset |-> page[1], limit |-> page[2],
                         level_filter |-> f[1], service_filter |-> f[2],
                         search_term |-> f[3]]
          /\ response' = get_entries(entries, page[1], page[2], f[1], f[2], f[3])
    /\ pc' = "get_entries"
    /\ UNCHANGED error
    /\ analyzer_unchanged

\* _round_timestamp on the timestamp of an entry, as get_timeline_data calls it.
RoundTimestamp ==
    /\ pc = "ready"
    /\ \E interval \in Intervals, i \in 1..Len(entries) :
          /\ has_timestamp(entries[i])
          /\ request' = [op |-> "_round_timestamp", interval |-> interval,
                         timestamp |-> entries[i].timestamp]
          /\ response' = _round_timestamp(entries[i].timestamp, _parse_interval(interval))
    /\ pc' = "_round_timestamp"
    /\ UNCHANGED error
    /\ analyzer_unchanged

GetTimelineData ==
    /\ pc = "ready"
    /\ \E interval \in {"1m", "15m", "1h", "1d", "2w"} :
          /\ request' = [op |-> "get_timeline_data", interval |-> interval]
          /\ response' = get_timeline_data(entries, interval)
    /\ pc' = "get_timeline_data"
    /\ UNCHANGED error
    /\ analyzer_unchanged

GenerateTimeSeries ==
    /\ pc = "ready"
    /\ request' = [op |-> "_generate_time_series"]
    /\ response' = _generate_time_series(entries)
    /\ pc' = "_generate_time_series"
    /\ UNCHANGED error
    /\ analyzer_unchanged

DetectErrorPatterns ==
    /\ pc = "ready"
    /\ request' = [op |-> "_detect_error_patterns"]
    /\ \E r \in {_detect_error_patterns(entries)} :
          response' = r.patterns /\ error' = r.error
    /\ pc' = "_detect_error_patterns"
    /\ analyzer_unchanged

DetectTimeAnomalies ==
    /\ pc = "ready"
    /\ request' = [op |-> "_detect_time_anomalies"]
    /\ response' = _detect_time_anomalies(entries)
    /\ pc' = "_detect_time_anomalies"
    /\ UNCHANGED error
    /\ analyzer_unchanged

DetectVolumeAnomalies ==
    /\ pc = "ready"
    /\ request' = [op |-> "_detect_volume_anomalies"]
    /\ response' = _detect_volume_anomalies(entries)
    /\ pc' = "_detect_volume_anomalies"
    /\ UNCHANGED error
    /\ analyzer_unchanged

DetectErrorSpikes ==
    /\ pc = "ready"
    /\ request' = [op |-> "_detect_error_spikes"]
    /\ response' = _detect_error_spikes(entries)
    /\ pc' = "_detect_error_spikes"
    /\ UNCHANGED error
    /\ analyzer_unchanged

DetectAnomalies ==
    /\ pc = "ready"
    /\ request' = [op |-> "_detect_anomalies"]
    /\ response' = _detect_anomalies(entries)
    /\ pc' = "_detect_anomalies"
    /\ UNCHANGED error
    /\ analyzer_unchanged

DetectRepetitivePatterns ==
    /\ pc = "ready"
    /\ request' = [op |-> "_detect_repetitive_patterns"]
    /\ response' = _detect_repetitive_patterns(entries)
    /\ pc' = "_detect_repetitive_patterns"
    /\ UNCHANGED error
    /\ analyzer_unchanged

NextAnalyzer ==
    \/ GetLevelDistribution
    \/ GetServiceDistribution
    \/ GetEntries
    \/ RoundTimestamp
    \/ GetTimelineData
    \/ GenerateTimeSeries
    \/ DetectErrorPatterns
    \/ DetectTimeAnomalies
    \/ DetectVolumeAnomalies
    \/ DetectErrorSpikes
    \/ DetectAnomalies
    \/ DetectRepetitivePatterns

SpecAnalyzer == InitAnalyzer /\ [][NextAnalyzer]_vars

(***************************************************************************)
(* The pipeline: one call of an entry point on a content and a file name.  *)
(***************************************************************************)

\* The lines of a JSON-lines file, of a CSV file and of a syslog or key=value
\* log, each with the blank lines.
JsonLines == {L_EMPTY, L_SPACES, L_JSON, L_JSON_EMPTY_MSG, L_JSON_ARRAY, L_JSON_BAD}
CsvLines == {L_EMPTY, L_SPACES, L_CSV_HEADER, L_CSV_ROW, L_CSV_EMPTY, L_CSV_SHORT}
TextLines == {L_EMPTY, L_SPACES, L_SYSLOG_PRI, L_SYSLOG_NOMSG, L_KEYVALUE}

\* Contents of one to MaxLines lines of one kind of file.
Contents ==
    UNION {[1..k -> JsonLines] \cup [1..k -> CsvLines] \cup [1..k -> TextLines] :
              k \in 1..MaxLines}

\* File names, by their extension.
Filenames == {".json", ".csv", ".syslog", ".log"}

\* What the platform's localtime() raises for a year it cannot hold.
PlatformErrors == {"OverflowError", "OSError"}

Init ==
    /\ pc = "ready"
    /\ IdleSessions
    /\ IdleLeaf
    /\ IdleCall
    /\ content \in Contents
    /\ filename \in Filenames
    /\ file_format = None
    /\ confidence = Frac(0, 1)
    /\ entries = <<>>
    /\ error = None
    /\ analysis = NoAnalysis

\* csv.Sniffer finds no dialect in a sample without a delimiter.
CanSniff(c, sniffed) == sniffed => \E i \in 1..Len(c) : has_delimiter(c[i])

DetectLogFormat ==
    /\ pc = "ready"
    /\ \E sniffed \in BOOLEAN :
          /\ CanSniff(content, sniffed)
          /\ \E r \in {_detect_log_format(content, filename, sniffed)} :
                file_format' = r[1] /\ confidence' = r[2]
    /\ pc' = "_detect_log_format"
    /\ UNCHANGED <<leaf_vars, session_vars, call_vars, content, filename, entries, error, analysis>>

ProcessContent ==
    /\ pc = "ready"
    /\ \E sniffed \in BOOLEAN, platform_error \in PlatformErrors :
          /\ CanSniff(content, sniffed)
          /\ \E r \in {process_content(content, filename, sniffed, platform_error)} :
                file_format' = r.file_format /\ entries' = r.entries /\ error' = r.error
    /\ pc' = "process_content"
    /\ UNCHANGED <<leaf_vars, session_vars, call_vars, content, filename, confidence, analysis>>

ProcessFile ==
    /\ pc = "ready"
    /\ \E sniffed \in BOOLEAN, platform_error \in PlatformErrors :
          /\ CanSniff(content, sniffed)
          /\ \E r \in {process_file(content, filename, sniffed, platform_error)} :
                entries' = r.entries /\ error' = r.error
    /\ pc' = "process_file"
    /\ UNCHANGED <<leaf_vars, session_vars, call_vars, content, filename, file_format, confidence, analysis>>

AnalyzeFile ==
    /\ pc = "ready"
    /\ \E sniffed \in BOOLEAN, platform_error \in PlatformErrors :
          /\ CanSniff(content, sniffed)
          /\ \E r \in {analyze_file(content, filename, sniffed, platform_error)} :
                analysis' = r.analysis /\ error' = r.error
    /\ pc' = "analyze_file"
    /\ UNCHANGED <<leaf_vars, session_vars, call_vars, content, filename, file_format, confidence, entries>>

Next == DetectLogFormat \/ ProcessContent \/ ProcessFile \/ AnalyzeFile

Spec == Init /\ [][Next]_vars

\* Every way an entry gets its level: the classifier on a text, the syslog
\* constructor on a match, the parsers on a file.
InitParsers == InitLevel \/ InitSyslog \/ Init

NextParsers == NextLevel \/ NextSyslog \/ Next

SpecParsers == InitParsers /\ [][NextParsers]_vars

(***************************************************************************)
(* The endpoints of files.py, analysis.py and chat.py on the three         *)
(* ChatService instances, and generate_session_response on its own.        *)
(***************************************************************************)

\* Messages a session's conversation holds at most under SpecSessions.
MaxChat == 2

\* Messages a conversation holds at most under SpecChat, and how many of its
\* generation requests do not end with a text.
MaxConversation == 54
MaxFailures == 1

\* len(entries) of the files uploaded.
EntryCounts == {0, 3}

\* One instance's dicts and the session directory after a call.
leaves(i, st) ==
    /\ chat_histories' = [chat_histories EXCEPT ![i] = st.chat_histories]
    /\ file_contexts' = [file_contexts EXCEPT ![i] = st.file_contexts]
    /\ session_files' = st.session_files

replied(endpoint, id, status) ==
    [NoReply EXCEPT !.endpoint = endpoint, !.id = id, !.status = status]

sessions_unchanged == UNCHANGED <<leaf_vars, file_vars, call_vars>>

\* upload_file with _create_session_context, for an accepted file.
UploadFile ==
    \E file_id \in FileIds \ issued, total \in EntryCounts :
        /\ issued' = issued \cup {file_id}
        /\ uploads' = [uploads EXCEPT ![file_id] = [stored |-> TRUE, total |-> total]]
        /\ leaves("files",
                  IF total = 0
                  THEN state_of("files")
                  ELSE set_file_context(state_of("files"), file_id, created_context(total)))
        /\ reply' = replied("upload_file", file_id, 200)
        /\ pc' = "upload_file"
        /\ UNCHANGED <<connection_healthy, last_health_check, conversation>>
        /\ sessions_unchanged

DeleteFile ==
    \E file_id \in FileIds :
        /\ uploads' = [uploads EXCEPT ![file_id] = NoUpload]
        /\ reply' = replied("delete_file", file_id,
                            IF uploads[file_id].stored THEN 200 ELSE 404)
        /\ pc' = "delete_file"
        /\ UNCHANGED <<chat_histories, file_contexts, connection_healthy, last_health_check,
                       session_files, issued, conversation>>
        /\ sessions_unchanged

GetAnalysis ==
    \E file_id \in SessionIds :
        \E st \in {get_file_context(state_of("analysis"), file_id)} :
            /\ leaves("analysis", st)
            /\ reply' =
                IF has_entries(st.file_contexts[file_id])
                THEN [replied("get_analysis", file_id, 200) EXCEPT
                        !.context = st.file_contexts[file_id]]
                ELSE replied("get_analysis", file_id, 404)
            /\ pc' = "get_analysis"
            /\ UNCHANGED <<connection_healthy, last_health_check, uploads, issued,
                           conversation>>
            /\ sessions_unchanged

GetAnalysisSession ==
    \E file_id \in SessionIds :
        \E st \in {get_chat_history(get_file_context(state_of("analysis"), file_id),
                                    file_id)} :
            /\ leaves("analysis", st)
            /\ reply' = [replied("get_analysis_session", file_id, 200) EXCEPT
                            !.context = st.file_contexts[file_id],
                            !.chat_history = st.chat_histories[file_id].value]
            /\ pc' = "get_analysis_session"
            /\ UNCHANGED <<connection_healthy, last_health_check, uploads, issued,
                           conversation>>
            /\ sessions_unchanged

\* analyze_file of analysis.py
AnalyzeFileOfId ==
    \E file_id \in FileIds :
        \E st \in {get_file_context(state_of("analysis"), file_id)} :
            /\ leaves("analysis", st)
            /\ reply' =
                IF has_entries(st.file_contexts[file_id])
                THEN [replied("analyze_file", file_id, 200) EXCEPT
                        !.context = st.file_contexts[file_id]]
                ELSE IF uploads[file_id].stored
                THEN replied("analyze_file", file_id, 200)
                ELSE replied("analyze_file", file_id, 404)
            /\ pc' = "analyze_file"
            /\ UNCHANGED <<connection_healthy, last_health_check, uploads, issued,
                           conversation>>
            /\ sessions_unchanged

\* The session's state, its conversation and the health of the instance after
\* generate_session_response on instance i.
responds(i, session_id, file_context, probe, outcome) ==
    /\ can_probe(i, probe)
    /\ check_ollama_health(i, probe)
    /\ \E n \in {Len(conversation[session_id]) \div 2 + 1} :
        \E st \in {generate_session_response(state_of(i), session_id, n, file_context,
                                             is_healthy_of(probe), outcome)} :
            /\ leaves(i, st)
            /\ conversation' =
                [conversation EXCEPT ![session_id] =
                    IF is_healthy_of(probe) THEN @ \o exchange(n, outcome) ELSE @]
            /\ reply' = [replied("generate_session_response", session_id, 200) EXCEPT
                            !.chat_history = st.chat_histories[session_id].value,
                            !.healthy = is_healthy_of(probe)]

\* chat_with_logs for a file that is not in UPLOAD_DIR: get_enhanced_file_context
\* raises and the handler answers 500.
ChatWithLogsNoFile ==
    \E file_id \in FileIds :
        /\ ~uploads[file_id].stored
        /\ reply' = replied("chat_with_logs", file_id, 500)
        /\ pc' = "chat_with_logs"
        /\ UNCHANGED <<chat_histories, file_contexts, connection_healthy, last_health_check,
                       session_files, uploads, issued, conversation>>
        /\ sessions_unchanged

\* chat_with_logs with request.file_id, the model answering with a text
ChatWithLogsFile ==
    \E file_id \in FileIds, probe \in Probes :
        /\ uploads[file_id].stored
        /\ Len(conversation[file_id]) < MaxChat
        /\ responds("chat", file_id, Stored(enhanced_context(uploads[file_id].total)),
                    probe, "answer")
        /\ pc' = "chat_with_logs"
        /\ UNCHANGED <<uploads, issued>>
        /\ sessions_unchanged

\* chat_with_logs with request.session_id alone
ChatWithLogsSession ==
    \E session_id \in SessionIds, probe \in Probes :
        /\ Len(conversation[session_id]) < MaxChat
        /\ responds("chat", session_id, NoContext, probe, "answer")
        /\ pc' = "chat_with_logs"
        /\ UNCHANGED <<uploads, issued>>
        /\ sessions_unchanged

GetChatHistory ==
    \E session_id \in SessionIds :
        \E st \in {get_chat_history(state_of("chat"), session_id)} :
            /\ leaves("chat", st)
            /\ reply' = [replied("get_chat_history", session_id, 200) EXCEPT
                            !.chat_history = st.chat_histories[session_id].value]
            /\ pc' = "get_chat_history"
            /\ UNCHANGED <<connection_healthy, last_health_check, uploads, issued,
                           conversation>>
            /\ sessions_unchanged

GetCompleteChatSession ==
    \E file_id \in SessionIds :
        \E st \in {get_file_context(get_chat_history(state_of("chat"), file_id), file_id)} :
            /\ leaves("chat", st)
            /\ reply' = [replied("get_complete_chat_session", file_id, 200) EXCEPT
                            !.context = st.file_contexts[file_id],
                            !.chat_history = st.chat_histories[file_id].value]
            /\ pc' = "get_complete_chat_session"
            /\ UNCHANGED <<connection_healthy, last_health_check, uploads, issued,
                           conversation>>
            /\ sessions_unchanged

\* clear_chat_history of chat.py; the session's conversation starts again.
ClearChatHistory ==
    \E session_id \in SessionIds :
        /\ leaves("chat", clear_session(state_of("chat"), session_id))
        /\ conversation' = [conversation EXCEPT ![session_id] = <<>>]
        /\ reply' = replied("clear_chat_history", session_id, 200)
        /\ pc' = "clear_chat_history"
        /\ UNCHANGED <<connection_healthy, last_health_check, uploads, issued>>
        /\ sessions_unchanged

InitSessions ==
    /\ pc = "ready"
    /\ IdleSessions
    /\ IdleLeaf
    /\ IdleFile
    /\ IdleCall

NextSessions ==
    \/ UploadFile
    \/ DeleteFile
    \/ GetAnalysis
    \/ GetAnalysisSession
    \/ AnalyzeFileOfId
    \/ ChatWithLogsNoFile
    \/ ChatWithLogsFile
    \/ ChatWithLogsSession
    \/ GetChatHistory
    \/ GetCompleteChatSession
    \/ ClearChatHistory

SpecSessions == InitSessions /\ [][NextSessions]_vars

\* The generation requests of a conversation that did not end with a text.
failures(messages) ==
    Cardinality({k \in 1..Len(messages) :
        /\ messages[k].role = "assistant"
        /\ messages[k].content[1] # ai_response_of("answer")})

\* generate_session_response on the instance of chat.py, over and over on one
\* session, with and without a file context.
GenerateSessionResponse ==
    \E file_context \in {NoContext, Stored(enhanced_context(3))},
       probe \in Probes, outcome \in Outcomes :
        /\ Len(conversation["s1"]) < MaxConversation
        /\ outcome # "answer" => failures(conversation["s1"]) < MaxFailures
        /\ responds("chat", "s1", file_context, probe, outcome)
        /\ pc' = "generate_session_response"
        /\ UNCHANGED <<uploads, issued>>
        /\ sessions_unchanged

NextChat == GenerateSessionResponse

SpecChat == InitSessions /\ [][NextChat]_vars

(***************************************************************************)
(* Properties of the pipeline, checked under Spec.                         *)
(***************************************************************************)

\* The CSV parser reaches its end: it has a header line and a data line to read.
CsvParserCompletes(c) == Len(splitlines(c)) >= 2 /\ csv_cells(splitlines(c)[1]) # <<>>

\* Positions in the content of the rows after the header: the lines after
\* the first one that are not empty.
DataRowPositions(c) == SelectSeq([i \in 1..Len(c) |-> i], LAMBDA i : i >= 2 /\ c[i] # L_EMPTY)

\* C1 as stated: process_content returns as many entries as the content has
\* non-blank lines when the format is plain text, structured, syslog or JSON,
\* and as many as it has rows after the header when the format is CSV.
C1_CountByFormat ==
    pc = "process_content" /\ error = None =>
        IF file_format = "csv"
        THEN Len(entries) = Len(DataRowPositions(content))
        ELSE Len(entries) = Len(NonBlank(content))

\* C1 amended: the count is the number of rows after the header only when the
\* format is CSV and the CSV parser reaches its end; when the CSV parser gives
\* up (fewer than two lines, or an empty first line) the content goes to the
\* plain-text parser, and then, as for every other format, there is exactly
\* one entry for each non-blank line, in order, carrying that line.
C1_CountByParser ==
    pc = "process_content" /\ error = None =>
        IF file_format = "csv" /\ CsvParserCompletes(content)
        THEN Len(entries) = Len(DataRowPositions(content))
        ELSE /\ Len(entries) = Len(NonBlank(content))
             /\ \A k \in 1..Len(entries) : entries[k].raw_line = NonBlank(content)[k]

\* A one-line content named *.csv: the format is CSV, the CSV parser gave up
\* and the plain-text parser made an entry of the line.
C1_Witness ==
    /\ pc = "process_content" /\ file_format = "csv"
    /\ ~CsvParserCompletes(content) /\ Len(entries) = 1
    /\ Len(DataRowPositions(content)) = 0

\* C2: every entry process_content returns has a non-empty message.
C2_MessageNeverEmpty ==
    pc = "process_content" => \A k \in 1..Len(entries) : entries[k].message # ""

\* C3: the line_number of every entry is the 1-based position of its line in
\* the content given to process_content: of the k-th non-blank line for the
\* k-th entry, and for a CSV content of the k-th row after the header.
C3_LineNumberIsSourcePosition ==
    pc = "process_content" /\ error = None =>
        LET positions == IF file_format = "csv" /\ CsvParserCompletes(content)
                         THEN DataRowPositions(content)
                         ELSE line_nums(content)
        IN \A k \in 1..Len(entries) :
               k <= Len(positions) => entries[k].line_number = positions[k]

\* C4: on an empty or whitespace-only input process_content and process_file
\* return no entry (process_content with the plain-text format) and
\* analyze_file returns an analysis with total_entries = 0; none of them raises.
C4_EmptyInputIsNotAnError ==
    is_blank_content(content) =>
        /\ pc = "process_content" =>
              error = None /\ entries = <<>> /\ file_format = "plain_text"
        /\ pc = "process_file" => error = None /\ entries = <<>>
        /\ pc = "analyze_file" =>
              error = None /\ analysis.kind = "result" /\ analysis.total_entries = 0

\* C5: when the JSON parser runs, every non-blank line gives exactly one entry,
\* in order; a line that is not a JSON object gives the fallback entry
\* (parse_error set, level INFO, no timestamp, no service, raw_line and message
\* the line), and every entry is the one its line gives when it is the only
\* line of the content, but for the line number.
C5_JsonFallbackPerLine ==
    pc = "process_content" /\ file_format = "json" /\ error = None =>
        LET ls == NonBlank(content)
        IN /\ Len(entries) = Len(ls)
           /\ \A k \in 1..Len(entries) :
                 LET e == entries[k]
                     alone == _parse_json_logs(<<ls[k]>>, "OSError")
                 IN /\ e.raw_line = ls[k]
                    /\ json_loads(ls[k]).type # "dict" =>
                          /\ e.parse_error \in {"Non-object JSON", "JSON decode error"}
                          /\ e.level = "INFO" /\ e.timestamp = NoTimestamp
                          /\ e.service = None /\ e.message = ls[k]
                    /\ json_loads(ls[k]).type = "dict" => e.parse_error = None
                    /\ Len(alone) = 1
                    /\ [e EXCEPT !.line_number = 1] = alone[1]

\* A line that is not a JSON object followed by a JSON object, both parsed.
C5_Witness ==
    /\ pc = "process_content" /\ file_format = "json"
    /\ \E i \in 1..Len(entries) : \E j \in (i + 1)..Len(entries) :
          entries[i].parse_error # None /\ entries[j].parse_error = None

\* Every non-blank line is a JSON object, and there is one.
AllJsonObjects(c) ==
    /\ NonBlank(c) # <<>>
    /\ \A i \in 1..Len(c) : ~IsBlank(c[i]) => json_loads(c[i]).type = "dict"

\* C6 as stated: a content whose non-blank lines are all JSON objects is
\* detected as JSON with confidence at least 0.7, whatever the number of lines
\* and the file name.
C6_JsonDetectedAlways ==
    pc = "_detect_log_format" /\ AllJsonObjects(content) =>
        file_format = "json" /\ FracLeq(json_confidence, confidence)

\* C6 amended: such a content is detected as JSON with confidence at least 0.7
\* when it has at least 3 non-blank lines; with fewer the result is the format
\* of the file name's extension with confidence 0.5.
C6_JsonDetectedFromThreeLines ==
    pc = "_detect_log_format" /\ AllJsonObjects(content) =>
        IF Len(NonBlank(content)) >= 3
        THEN file_format = "json" /\ FracLeq(json_confidence, confidence)
        ELSE file_format = _format_from_extension(filename) /\ confidence = Frac(1, 2)

\* Three JSON objects in a file named *.log, detected as JSON.
C6_Witness ==
    /\ pc = "_detect_log_format" /\ AllJsonObjects(content)
    /\ Len(NonBlank(content)) >= 3 /\ filename = ".log" /\ file_format = "json"

\* The acceptance threshold of a format, 0 for the formats without one.
ThresholdOf(f) ==
    CASE f = "json" -> json_confidence
      [] f = "csv" -> csv_confidence
      [] f = "syslog" -> syslog_confidence
      [] OTHER -> Frac(0, 1)

\* C7: with at least 3 non-blank lines the detector's result comes from a
\* family w of maximum score: (plain text, 0.5) when w is JSON, CSV or syslog
\* with a score below its threshold, (w, score of w) otherwise; so a returned
\* JSON, CSV or syslog has a confidence at or above its threshold, and the
\* confidence is in [0, 1].
C7_MaxScoreThenThreshold ==
    pc = "_detect_log_format" /\ Len(NonBlank(content)) >= 3 =>
        /\ \E sniffed \in BOOLEAN : \E w \in {"json", "csv", "syslog", "custom", "plain_text"} :
              LET scores == scores_of(NonBlank(content), sniffed)
              IN /\ CanSniff(content, sniffed)
                 /\ \A f \in DOMAIN scores : FracLeq(scores[f], scores[w])
                 /\ IF FracLess(scores[w], ThresholdOf(w))
                    THEN file_format = "plain_text" /\ confidence = Frac(1, 2)
                    ELSE file_format = w /\ FracEq(confidence, scores[w])
        /\ FracLeq(ThresholdOf(file_format), confidence)
        /\ FracLeq(Frac(0, 1), confidence) /\ FracLeq(confidence, Frac(1, 1))

\* A syslog winner below its threshold, demoted to plain text at 0.5.
C7_Witness ==
    /\ pc = "_detect_log_format" /\ Len(NonBlank(content)) >= 3
    /\ file_format = "plain_text" /\ confidence = Frac(1, 2)
    /\ \E i \in 1..Len(content) : matches_syslog_prefix(content[i])

\* The keyword families of the specification's Level Classifier, in priority order.
PriorityFamilies ==
    << [level |-> "FATAL", keywords |-> {"FATAL", "CRITICAL", "EMERGENCY"}],
       [level |-> "ERROR", keywords |-> {"ERROR", "ERR", "FAILED", "FAILURE"}],
       [level |-> "WARN", keywords |-> {"WARN", "WARNING", "ALERT"}],
       [level |-> "INFO", keywords |-> {"INFO", "INFORMATION", "NOTICE"}],
       [level |-> "DEBUG", keywords |-> {"DEBUG", "TRACE", "VERBOSE"}] >>

\* The keywords only the secondary table knows, in the order it is consulted.
SecondaryOnly ==
    << [level |-> "ERROR", keywords |-> {"ERRO"}],
       [level |-> "DEBUG", keywords |-> {"DBG"}],
       [level |-> "TRACE", keywords |-> {"TRC"}],
       [level |-> "FATAL", keywords |-> {"CRIT"}] >>

\* Families with a case-insensitive whole-word match in t.
Matching(families, t) ==
    {i \in 1..Len(families) : \E k \in 1..Len(t) : upper(t[k]) \in families[i].keywords}

\* C8 as stated: the first matching family of the priority order decides, and
\* the result is absent when no family matches.
C8_FirstFamilyOrAbsent ==
    pc = "_extract_log_level" =>
        level = (IF Matching(PriorityFamilies, text) = {} THEN None
                 ELSE PriorityFamilies[Min(Matching(PriorityFamilies, text))].level)

\* C8 amended: the first matching family of the priority order decides; when no
\* family matches, the first matching keyword of the secondary table (ERRO ->
\* ERROR, DBG -> DEBUG, TRC -> TRACE, CRIT -> FATAL) decides; the result is
\* absent only when neither table matches.  A text with both WARNING and FATAL
\* classifies as FATAL.
C8_FirstFamilyThenSecondary ==
    pc = "_extract_log_level" =>
        /\ Matching(PriorityFamilies, text) # {} =>
              level = PriorityFamilies[Min(Matching(PriorityFamilies, text))].level
        /\ (Matching(PriorityFamilies, text) = {} /\ Matching(SecondaryOnly, text) # {}) =>
              level = SecondaryOnly[Min(Matching(SecondaryOnly, text))].level
        /\ (Matching(PriorityFamilies, text) = {} /\ Matching(SecondaryOnly, text) = {}) =>
              level = None
        /\ (\E i, j \in 1..Len(text) : text[i] = "warning" /\ text[j] = "fatal") =>
              level = "FATAL"

\* A text with both WARNING and FATAL has been classified.
C8_Witness ==
    /\ pc = "_extract_log_level"
    /\ \E i, j \in 1..Len(text) : text[i] = "warning" /\ text[j] = "fatal"
    /\ level = "FATAL"

\* The patterns of the Service Extractor found in the stripped input.
C9_Matching == {n \in 1..NumServicePatterns : pattern_matches(n, strip(service_input))}

\* C9: when the input is not an already-clean candidate and the token extracted
\* by the first matching pattern is a stoplisted word, the service is absent,
\* and otherwise it is that token; "[ERROR] ..." yields an absent service.
C9_FirstMatchWinsStoplistAbsent ==
    (pc = "_extract_service" /\ C9_Matching # {}) =>
        LET tok == pattern_group(Min(C9_Matching), strip(service_input))
        IN service = (IF is_excluded(tok) THEN None ELSE Join(tok))

\* C10: a digit string n is read as Unix seconds when n <= 1e10, as
\* milliseconds when 1e10 < n <= 1e13 and as microseconds when n > 1e13, each
\* giving that instant (absent when the instant is past what a datetime holds),
\* and the extractor never raises.
C10_EpochUnitByMagnitude ==
    (pc = "_extract_timestamp" /\ timestamp_str.form = "digits") =>
        LET n == Num(timestamp_str.hi, timestamp_str.lo)
            expect(unit, x) == IF Leq(x, MaxDatetime) THEN Instant(unit, n) ELSE NoTimestamp
        IN timestamp = (IF Leq(n, E10) THEN expect("s", n)
                        ELSE IF Leq(n, E13) THEN expect("ms", DivNum(n, 1000))
                        ELSE expect("us", DivNum(n, 1000000)))

\* C12: clustering the error entries never fails on the data: analyze_file
\* returns normally, a group of two or more error entries none of which has a
\* timestamp included (its pattern has no first and no last occurrence).
C12_ClusteringNeverFails == pc = "analyze_file" => error # "ValueError"

(***************************************************************************)
(* Properties of the syslog constructor, checked under SpecSyslog.         *)
(***************************************************************************)

\* The level of each severity 0..7, as the syslog rule gives it.
SeverityLevel == <<"ERROR", "ERROR", "ERROR", "ERROR", "WARN", "INFO", "INFO", "DEBUG">>

\* C11: with a <priority> value p the entry's level is the level of p mod 8
\* (0..3 ERROR, 4 WARN, 5..6 INFO, 7 DEBUG), for p = 0 as well and whatever
\* level keyword the message holds; the message is classified only when the
\* line has no priority.
C11_LevelFromPriority ==
    pc = "_create_log_entry_from_syslog_match" =>
        IF groups.priority # None
        THEN log_entry.level = SeverityLevel[(int(groups.priority) % 8) + 1]
        ELSE log_entry.level = _extract_log_level(Tokenize(groups.message))

\* A line of priority 0 whose message says debug has been given ERROR.
C11_Witness ==
    /\ pc = "_create_log_entry_from_syslog_match"
    /\ groups.priority = "0"
    /\ groups.message = "debug"
    /\ log_entry.level = "ERROR"

(***************************************************************************)
(* Properties of the normalizers, checked under SpecNormalizer.            *)
(***************************************************************************)

\* C13: normalizing is idempotent: either normalizer, given what it returned
\* for a message, returns it unchanged, for messages mixing quotes, path
\* separators, digits and whitespace too.
C13_NormalizeIdempotent ==
    pc \in {"_normalize_message again", "_normalize_error_message again"} =>
        normalized_atoms = message_atoms

(***************************************************************************)
(* Properties of the analyzer and the pattern detector, checked under      *)
(* SpecAnalyzer.                                                           *)
(***************************************************************************)

\* The sum of the counts of a distribution.
RECURSIVE SumCounts(_)
SumCounts(d) == IF d = <<>> THEN 0 ELSE d[1][2] + SumCounts(Tail(d))

\* The level an entry is counted under.
counted_level(e) == IF e.level = None THEN "INFO" ELSE e.level

\* C14: the level distribution counts every entry exactly once, under its
\* level or under INFO when it has none: each level listed once with the
\* number of its entries, never 0, and the counts sum to the number of entries.
C14_LevelDistributionCountsAll ==
    pc = "_get_level_distribution" =>
        /\ \A i, j \in 1..Len(response) : response[i][1] = response[j][1] => i = j
        /\ \A i \in 1..Len(response) :
              /\ response[i][2] > 0
              /\ response[i][2] =
                    Cardinality({n \in 1..Len(entries) :
                                    counted_level(entries[n]) = response[i][1]})
        /\ \A n \in 1..Len(entries) :
              \E i \in 1..Len(response) : response[i][1] = counted_level(entries[n])
        /\ SumCounts(response) = Len(entries)

\* Entries with and without a level have been counted, one without under INFO.
C14_Witness ==
    /\ pc = "_get_level_distribution"
    /\ \E n \in 1..Len(entries) : entries[n].level = None
    /\ \E n \in 1..Len(entries) : entries[n].level = "INFO"
    /\ \E n \in 1..Len(entries) : entries[n].level = "ERROR"
    /\ \E i \in 1..Len(response) : response[i] = <<"INFO", 2>>

\* The name an entry is counted under.
service_name(e) == IF truthy(e.service) THEN e.service ELSE "unknown"

\* The number of entries of a name.
entries_of_service(k) == Cardinality({n \in 1..Len(entries) : service_name(entries[n]) = k})

\* C15: the service distribution counts the entries of each service name, an
\* absent service under unknown, and returns the 20 most frequent names at
\* most, in descending order of count: every name returned has at least the
\* count of every name left out, and with 20 names or fewer the counts sum to
\* the number of entries.
C15_ServiceDistributionTop20 ==
    pc = "_get_service_distribution" =>
        LET names == {service_name(entries[n]) : n \in 1..Len(entries)}
            returned == {response[i][1] : i \in 1..Len(response)}
        IN /\ Len(response) = (IF Cardinality(names) < 20 THEN Cardinality(names) ELSE 20)
           /\ returned \subseteq names
           /\ \A i, j \in 1..Len(response) : response[i][1] = response[j][1] => i = j
           /\ \A i \in 1..Len(response) : response[i][2] = entries_of_service(response[i][1])
           /\ \A i \in 1..(Len(response) - 1) : response[i][2] >= response[i + 1][2]
           /\ \A k \in names \ returned :
                 \A i \in 1..Len(response) : response[i][2] >= entries_of_service(k)
           /\ Cardinality(names) <= 20 => SumCounts(response) = Len(entries)

\* Of 21 names the one met last, with three entries, has been returned first
\* and a name of one entry left out.
C15_Witness ==
    /\ pc = "_get_service_distribution"
    /\ Cardinality({service_name(entries[n]) : n \in 1..Len(entries)}) = 21
    /\ Len(response) = 20
    /\ response[1] = <<"s21", 3>>
    /\ service_name(entries[1]) = "s01"

\* The entry satisfies the filters supplied with the request.
satisfies(e) ==
    /\ truthy(request.level_filter) => e.level = request.level_filter
    /\ truthy(request.service_filter) => e.service = request.service_filter
    /\ truthy(request.search_term) =>
          contains(str_lower(chars(request.search_term)), str_lower(chars(e.message)))

\* The positions of the entries that satisfy the filters, in order.
satisfying == SelectSeq([n \in 1..Len(entries) |-> n], LAMBDA n : satisfies(entries[n]))

\* C16: get_entries returns as total the number of entries that satisfy all
\* the filters supplied (level and service by exact match, the search term as
\* a substring of the message whatever the case), whatever offset and limit,
\* and as page the entries of positions offset .. offset+limit-1 among those,
\* in order: min(limit, max(0, total - offset)) entries.
C16_FilteredTotalAndPage ==
    pc = "get_entries" =>
        LET left == IF Len(satisfying) > request.offset
                    THEN Len(satisfying) - request.offset ELSE 0
            page_len == IF request.limit < left THEN request.limit ELSE left
        IN /\ response.total = Len(satisfying)
           /\ Len(response.entries) = page_len
           /\ \A i \in 1..page_len :
                 response.entries[i] = _entry_to_dict(entries[satisfying[request.offset + i]])
           /\ response.offset = request.offset
           /\ response.limit = request.limit

\* Two of three entries hold the search term in another case; the page of
\* offset 1 and limit 1 is the second of them, the third entry, and total is 2.
C16_Witness ==
    /\ pc = "get_entries"
    /\ request.search_term = "DOWN"
    /\ request.offset = 1
    /\ request.limit = 1
    /\ Len(entries) = 3
    /\ entries[2].message = "ok"
    /\ response.total = 2
    /\ Len(response.entries) = 1
    /\ response.entries[1].line_number = 3

\* The minutes of each interval token.
TokenMinutes ==
    {<<"1m", 1>>, <<"5m", 5>>, <<"15m", 15>>, <<"30m", 30>>, <<"1h", 60>>, <<"2h", 120>>,
     <<"6h", 360>>, <<"12h", 720>>, <<"1d", 1440>>}

\* The seconds of the interval of a token, one hour for a token not listed.
interval_seconds(token) ==
    IF \E tm \in TokenMinutes : tm[1] = token
    THEN 60 * (CHOOSE tm \in TokenMinutes : tm[1] = token)[2]
    ELSE 3600

\* C17: a timestamp t is rounded down to its bucket boundary b, the greatest
\* multiple of the interval counted from midnight of t's day that is not
\* after t, so b <= t < b + interval; the interval is that of the token, one
\* hour for a token that is not recognized.
C17_RoundDownToBucket ==
    pc = "_round_timestamp" =>
        LET t == request.timestamp.lo
            b == response.lo
            midnight == (t \div 86400) * 86400
            interval == interval_seconds(request.interval)
        IN /\ response.kind = "instant"
           /\ midnight <= b
           /\ (b - midnight) % interval = 0
           /\ b <= t
           /\ t < b + interval

\* 07:44:30 on the second day has been rounded to 07:00:00 under a token that
\* is not recognized.
C17_Witness ==
    /\ pc = "_round_timestamp"
    /\ request.interval = "2w"
    /\ request.timestamp = at(1, 7, 44, 30)
    /\ response = at(1, 7, 0, 0)

\* The timestamped entries' positions and the class of an entry's level.
timestamped == {n \in 1..Len(entries) : entries[n].timestamp.kind = "instant"}
class_of(e) ==
    CASE e.level \in {"ERROR", "FATAL", "CRITICAL"} -> "error"
      [] e.level \in {"WARN", "WARNING"} -> "warn"
      [] e.level = "INFO" -> "info"
      [] OTHER -> "other"

\* The bucket key of a timestamp for an interval in seconds.
bucket_key(ts, interval) ==
    isoformat([ts EXCEPT !.lo = ts.lo - ((ts.lo % 86400) % interval)])

\* The number of timestamped entries of a bucket key and a class.
in_bucket(key, interval, classes) ==
    Cardinality({n \in timestamped :
                    /\ bucket_key(entries[n].timestamp, interval) = key
                    /\ class_of(entries[n]) \in classes})

\* The sum of the total counts of the rows.
RECURSIVE SumTotals(_)
SumTotals(rows) == IF rows = <<>> THEN 0 ELSE rows[1].total_count + SumTotals(Tail(rows))

error_group(k) ==
    {n \in 1..Len(entries) :
        /\ entries[n].level \in {"ERROR", "FATAL", "CRITICAL"}
        /\ _normalize_error_message(entries[n].message) = k}

\* The normalized messages of the error entries met twice or more.
repeated_errors ==
    {k \in {_normalize_error_message(entries[n].message) : n \in 1..Len(entries)} :
        Cardinality(error_group(k)) >= 2}

\* The first entries of a set of positions, three at most, as messages.
RECURSIVE first_messages(_, _)
first_messages(S, n) ==
    IF S = {} \/ n = 0 THEN <<>>
    ELSE <<entries[Min(S)].message>> \o first_messages(S \ {Min(S)}, n - 1)

normalized_message(e) == Join(_normalize_message(Tokenize(e.message)))

\* The positions of the entries that share the normalized message k.
message_group(k) == {n \in 1..Len(entries) : normalized_message(entries[n]) = k}

\* The normalized messages of min_len characters or more met 5 times or more.
repeated_messages(min_len) ==
    {k \in {normalized_message(entries[n]) : n \in 1..Len(entries)} :
        Len(k) >= min_len /\ Cardinality(message_group(k)) >= 5}

\* The patterns returned are those of the groups of 5 members or more whose
\* normalized message has min_len characters or more, each with its count and
\* the severity of its share of all entries.
repetitive_as_stated(min_len) ==
    /\ Len(response) = Cardinality(repeated_messages(min_len))
    /\ {Join(_normalize_message(Tokenize(response[i].examples[1]))) : i \in 1..Len(response)}
          = repeated_messages(min_len)
    /\ \A i \in 1..Len(response) :
          LET size == Cardinality(message_group(
                          Join(_normalize_message(Tokenize(response[i].examples[1])))))
          IN /\ response[i].count = size
             /\ response[i].severity =
                   (IF 10 * size > Len(entries) THEN "high"
                    ELSE IF 20 * size > Len(entries) THEN "medium"
                    ELSE "low")

\* C20 as stated: repetitive-message detection groups all entries by
\* normalized message, ignores only the normalized strings shorter than 10
\* characters (one of exactly 10 is kept), gives a pattern for exactly the
\* groups of 5 members or more, of severity high for more than 10% of all
\* entries, medium for more than 5%, low otherwise.
C20_KeepsTenCharacters ==
    pc = "_detect_repetitive_patterns" => repetitive_as_stated(10)

\* C20: repetitive-message detection groups all entries by normalized
\* message, ignores the normalized strings of 10 characters or fewer (one of
\* exactly 10 is ignored, one of 11 is kept), gives a pattern for exactly the
\* groups of 5 members or more, of severity high for more than 10% of all
\* entries, medium for more than 5%, low otherwise.
C20_KeepsOverTenCharacters ==
    pc = "_detect_repetitive_patterns" => repetitive_as_stated(11)

\* A message of 11 characters met 5 times among 50 entries has given one
\* pattern of count 5, medium: 10% of the entries is not more than 10%.
C20_Witness ==
    /\ pc = "_detect_repetitive_patterns"
    /\ Len(entries) = 50
    /\ entries[1].message = "db was down"
    /\ entries[6].message = "ok"
    /\ Len(response) = 1
    /\ response[1].count = 5
    /\ response[1].severity = "medium"

\* The greatest of a set of numbers.
Max(S) == CHOOSE m \in S : \A n \in S : n <= m

\* The times of the timestamped entries, in seconds.
entry_times == {entries[n].timestamp.lo : n \in timestamped}

\* u is the time that follows t among the times T.
follows(T, t, u) == u \in T /\ t < u /\ ~\E v \in T : t < v /\ v < u

\* The times T of n entries that are followed by a gap over 10 times the
\* mean gap and of min_gap seconds or more.  A mean is the sum of the gaps,
\* from the first time to the last, over their number n - 1; two entries of
\* one time are a gap of 0.
before_large_gaps(T, n, min_gap) ==
    {t \in T : \E u \in T : /\ follows(T, t, u)
                            /\ (u - t) * (n - 1) > 10 * (Max(T) - Min(T))
                            /\ u - t >= min_gap}

\* C21: time-gap detection flags exactly the gaps between consecutive
\* timestamped entries, in order of time, that exceed 10 times the mean gap
\* and are at least 300 seconds, a gap of exactly 300 seconds included; with
\* fewer than 10 timestamped entries it flags nothing.
C21_GapsOfAtLeast300 ==
    pc = "_detect_time_anomalies" =>
        \A T \in {entry_times} :
            \A flagged \in {IF Cardinality(timestamped) < 10 THEN {}
                            ELSE before_large_gaps(T, Cardinality(timestamped), 300)} :
                /\ Len(response) = Cardinality(flagged)
                /\ {response[n].timestamp : n \in 1..Len(response)}
                      = {isoformat(at(0, 0, 0, t)) : t \in flagged}
                /\ \A n \in 1..Len(response) :
                      /\ response[n].type = "time_gap"
                      /\ \E t \in flagged :
                            /\ response[n].timestamp = isoformat(at(0, 0, 0, t))
                            /\ follows(T, t, t + response[n].description[2])
                /\ \A n \in 1..(Len(response) - 1) :
                      iso_less(response[n].timestamp, response[n + 1].timestamp)

\* The buckets of width seconds that hold a timestamped entry of the classes.
buckets_of(width, classes) ==
    {bucket_key(entries[n].timestamp, width) :
        n \in {m \in timestamped : class_of(entries[m]) \in classes}}

\* The spikes among the buckets B of these classes: the buckets whose count
\* is over 3 times the mean count of the buckets and over floor, none with
\* fewer than 3 buckets.
spikes(B, width, classes, floor) ==
    IF Cardinality(B) < 3 THEN {}
    ELSE {b \in B :
            /\ in_bucket(b, width, classes) * Cardinality(B)
                  > 3 * Cardinality({m \in timestamped : class_of(entries[m]) \in classes})
            /\ in_bucket(b, width, classes) > floor}

\* The anomalies returned are those of the spikes, each once, with the count
\* of its bucket and severity over when the count is over 5 times the mean
\* and under otherwise.
spikes_reported(flagged, B, width, classes, type, over, under) ==
    /\ Len(response) = Cardinality(flagged)
    /\ {response[n].timestamp : n \in 1..Len(response)} = flagged
    /\ \A n \in 1..Len(response) :
          /\ response[n].type = type
          /\ response[n].affected_entries = in_bucket(response[n].timestamp, width, classes)
          /\ response[n].severity =
                (IF response[n].affected_entries * Cardinality(B)
                       > 5 * Cardinality({m \in timestamped : class_of(entries[m]) \in classes})
                 THEN over ELSE under)

\* C22: volume-spike detection counts the timestamped entries of each hour
\* and, with 3 hours or more, flags exactly the hours whose count is over 3
\* times the mean of all the hours' counts, the spike's included, and over
\* 100, medium when the count is over 5 times that mean and low otherwise;
\* with fewer than 3 hours it flags nothing.
C22_VolumeSpikes ==
    pc = "_detect_volume_anomalies" =>
        \A B \in {buckets_of(3600, {"error", "warn", "info", "other"})} :
            \A flagged \in {spikes(B, 3600, {"error", "warn", "info", "other"}, 100)} :
                spikes_reported(flagged, B, 3600, {"error", "warn", "info", "other"},
                                "volume_spike", "medium", "low")

\* An hour of 101 entries among seven hours, of mean 107/7, has been flagged
\* medium.
C22_Witness ==
    /\ pc = "_detect_volume_anomalies"
    /\ Len(entries) = 107
    /\ Len(response) = 1
    /\ response[1].affected_entries = 101
    /\ response[1].severity = "medium"
    /\ response[1].timestamp = <<0, 0, 0, 0>>

\* C23: error-spike detection counts the timestamped ERROR, FATAL and
\* CRITICAL entries of each interval of 10 minutes; with fewer than 10 such
\* entries or fewer than 3 intervals it flags nothing, and otherwise exactly
\* the intervals whose count is over 3 times the mean count of the intervals
\* and over 10, high when the count is over 5 times the mean and medium
\* otherwise.
C23_ErrorSpikes ==
    pc = "_detect_error_spikes" =>
        \A B \in {buckets_of(600, {"error"})} :
            \A flagged \in
                  {IF Cardinality({m \in timestamped : class_of(entries[m]) = "error"}) < 10
                   THEN {} ELSE spikes(B, 600, {"error"}, 10)} :
                spikes_reported(flagged, B, 600, {"error"}, "error_spike", "high", "medium")

\* An interval of 11 errors among ten intervals of 20 errors, of mean 2, has
\* been flagged high.
C23_Witness ==
    /\ pc = "_detect_error_spikes"
    /\ Len(entries) = 20
    /\ entries[2].level = "FATAL"
    /\ Len(response) = 1
    /\ response[1].affected_entries = 11
    /\ response[1].severity = "high"

\* C24: the anomalies returned are the time-gap anomalies, then the
\* volume-spike anomalies, then the error-spike anomalies, cut to the first
\* 10, so that an earlier kind goes before a later one; the time-gap detector
\* adds its own only when there are more than 100 entries.
C24_AnomaliesInOrderTop10 ==
    pc = "_detect_anomalies" =>
        \A t \in {IF Len(entries) > 100 THEN _detect_time_anomalies(entries) ELSE <<>>},
           v \in {_detect_volume_anomalies(entries)},
           e \in {_detect_error_spikes(entries)} :
            /\ Len(response) = (IF Len(t) + Len(v) + Len(e) < 10
                                THEN Len(t) + Len(v) + Len(e) ELSE 10)
            /\ \A n \in 1..Len(response) :
                  response[n] = (IF n <= Len(t) THEN t[n]
                                 ELSE IF n <= Len(t) + Len(v) THEN v[n - Len(t)]
                                 ELSE e[n - Len(t) - Len(v)])
            /\ Len(entries) <= 100 =>
                  \A n \in 1..Len(response) : response[n].type # "time_gap"

\* Of one time gap and ten error spikes among 141 entries, the time gap and
\* the first nine error spikes have been returned.
C24_Witness ==
    /\ pc = "_detect_anomalies"
    /\ Len(entries) = 141
    /\ Len(response) = 10
    /\ response[1].type = "time_gap"
    /\ response[2].type = "error_spike"
    /\ response[10].type = "error_spike"
    /\ response[10].timestamp = <<0, 1, 20, 0>>

(***************************************************************************)
(* Properties of every parser, checked under SpecParsers.                  *)
(***************************************************************************)

\* The levels a parser gives, None for no level.
ParsedLevels == {"ERROR", "WARN", "INFO", "DEBUG", "TRACE", "FATAL", None}

\* C25: no entry a parser produces has the level WARNING or CRITICAL: the
\* classifier with its two tables, the syslog priority mapping and the
\* fallback entry give ERROR, WARN, INFO, DEBUG, TRACE, FATAL or no level.
C25_NoWarningNoCritical ==
    /\ level \in ParsedLevels
    /\ log_entry # NoEntry => log_entry.level \in ParsedLevels
    /\ \A i \in 1..Len(entries) : entries[i].level \in ParsedLevels

\* A text that says Critical and warning has been classified FATAL.
C25_Witness ==
    /\ pc = "_extract_log_level"
    /\ \E i \in 1..Len(text) : text[i] = "Critical"
    /\ \E i \in 1..Len(text) : text[i] = "warning"
    /\ level = "FATAL"

(***************************************************************************)
(* A property of the service extractor, checked under SpecService.         *)
(***************************************************************************)

\* C26: on every path of _extract_service, the already clean candidate, the
\* extraction patterns and the cleaned remainder, the value returned is
\* absent or a token that is not empty and is not a stoplisted word in any
\* case.
C26_AbsentOrNonEmptyToken ==
    pc = "_extract_service" =>
        \/ service = None
        \/ /\ service # ""
           /\ lower(service) \notin _get_excluded_service_names

(***************************************************************************)
(* The level filter against the level distribution, under SpecAnalyzer.    *)
(***************************************************************************)

\* The count a distribution reports for a key, 0 for a key it does not list.
reported(d, k) == SumCounts(SelectSeq(d, LAMBDA kv : kv[1] = k))

\* The request filters on the level only.
level_only_request ==
    /\ pc = "get_entries"
    /\ truthy(request.level_filter)
    /\ ~truthy(request.service_filter)
    /\ ~truthy(request.search_term)

\* C27 as stated: for every level L the total get_entries returns for the
\* level filter L alone is the count the level distribution of the same
\* entries reports for L.
C27_FilterTotalIsCount ==
    level_only_request =>
        response.total = reported(_get_level_distribution(entries), request.level_filter)

\* C27: for every level L the total get_entries returns for the level filter
\* L alone is the count the level distribution of the same entries reports
\* for L, less the entries without a level when L is INFO: the distribution
\* counts them as INFO and the filter does not match them.
C27_FilterTotalIsCountOfLevelled ==
    level_only_request =>
        response.total =
            reported(_get_level_distribution(entries), request.level_filter)
              - (IF request.level_filter = "INFO"
                 THEN Cardinality({n \in 1..Len(entries) : entries[n].level = None})
                 ELSE 0)

\* Of an INFO entry and an entry without a level, the filter INFO has matched
\* one and the distribution reports two.
C27_Witness ==
    /\ level_only_request
    /\ request.level_filter = "INFO"
    /\ Len(entries) = 2
    /\ entries[1].level = "INFO"
    /\ entries[2].level = None
    /\ response.total = 1
    /\ reported(_get_level_distribution(entries), "INFO") = 2

(***************************************************************************)
(* Properties of the session store, checked under SpecSessions.            *)
(***************************************************************************)

\* What the session directory holds of a session: its file context, None
\* without a session file, and its chat history, [] without one.
persisted_context(session_id) ==
    IF session_files[session_id].exists
    THEN Stored(session_files[session_id].file_context)
    ELSE NoContext

persisted_history(session_id) == session_files[session_id].chat_history

\* C28: whatever instance wrote last, a read of a session on any instance
\* returns the state of the session most recently persisted: the file context
\* and the chat history of its session file, and nothing once clear_session
\* removed the file.  get_analysis answers from the persisted context alone.
C28_ReadsReturnThePersistedState ==
    /\ reply.endpoint \in {"get_analysis_session", "get_complete_chat_session"} =>
          /\ reply.context = persisted_context(reply.id)
          /\ reply.chat_history = persisted_history(reply.id)
    /\ reply.endpoint = "get_chat_history" =>
          reply.chat_history = persisted_history(reply.id)
    /\ reply.endpoint = "get_analysis" =>
          (reply.status = 200 <=> has_entries(persisted_context(reply.id)))

\* The files of UPLOAD_DIR that were uploaded and are there no more.
deleted_files == {f \in issued : ~uploads[f].stored}

\* C29: once delete_file has removed a file, get_analysis and analyze_file
\* answer not-found for its identifier.
C29_DeletedFileIsNotFound ==
    (reply.endpoint \in {"get_analysis", "analyze_file"} /\ reply.id \in deleted_files) =>
        reply.status = 404

(***************************************************************************)
(* A property of the chat history, checked under SpecChat.                 *)
(***************************************************************************)

\* The history of the session in the memory of the instance of chat.py.
stored_history == chat_histories["chat"]["s1"].value

\* h is the end of the sequence c.
is_suffix(h, c) == Len(h) <= Len(c) /\ h = SubSeq(c, Len(c) - Len(h) + 1, Len(c))

\* The history holds at most MAX_CHAT_HISTORY messages, it is the end of the
\* conversation, and the session file holds the same.
history_bounded_suffix ==
    \A h \in {stored_history} :
        /\ Len(h) <= MAX_CHAT_HISTORY
        /\ is_suffix(h, conversation["s1"])
        /\ session_files["s1"].exists => session_files["s1"].chat_history = h

\* What a call changes: one found healthy puts one user message and then one
\* assistant message at the end of the history and drops from its head only
\* what exceeds MAX_CHAT_HISTORY; one found unhealthy leaves it alone.
call_appends_one_exchange ==
    \A h \in {stored_history} : \A after \in {stored_history'} :
        IF reply'.healthy
        THEN /\ Len(after) >= 2
             /\ after[Len(after) - 1].role = "user"
             /\ after[Len(after)].role = "assistant"
             /\ after[Len(after) - 1].content[2] = after[Len(after)].content[2]
             /\ Len(after) = (IF Len(h) + 2 > MAX_CHAT_HISTORY
                              THEN MAX_CHAT_HISTORY ELSE Len(h) + 2)
             /\ is_suffix(SubSeq(after, 1, Len(after) - 2), h)
        ELSE after = h

\* C30: after any sequence of generate_session_response calls the stored
\* history has at most MAX_CHAT_HISTORY messages and is a suffix of the full
\* conversation in order, and every call made while the AI service is found
\* healthy appends exactly one user message followed by one assistant
\* message, whatever the outcome of the generation request.
C30_HistoryIsBoundedSuffix ==
    /\ []history_bounded_suffix
    /\ [][call_appends_one_exchange]_vars

\* A conversation of more than MAX_CHAT_HISTORY messages whose last request
\* timed out: the history holds its last MAX_CHAT_HISTORY messages, the
\* timeout text at the end.
C30_Witness ==
    /\ pc = "generate_session_response"
    /\ reply.healthy
    /\ Len(conversation["s1"]) > MAX_CHAT_HISTORY
    /\ Len(stored_history) = MAX_CHAT_HISTORY
    /\ stored_history[MAX_CHAT_HISTORY].content[1] = ai_response_of("timeout")
    /\ stored_history[1] # conversation["s1"][1]

====
